---- MODULE Spec2Model ----
(***************************************************************************)
(* Model of the analytics summarizer                                       *)
(* (src/skills/analytics-summarizer/scripts/analytics_summarizer.py).      *)
(*                                                                         *)
(* Number representation.  The program computes with Python floats that    *)
(* are rounded to a fixed number of decimals before they are stored.  The  *)
(* model keeps every stored value as an integer in the unit of its         *)
(* rounding:                                                               *)
(*   rates, benchmark_delta, averages   hundredths of a percent            *)
(*                                      (round(x, 2): 1.5% is 150)         *)
(*   composite_score                    tenths (round(x, 1): 65.0 is 650)  *)
(*   engagement_target, platform_scale  tenths (3.0 is 30, 1.4 is 14)      *)
(*   *_rate_target                      hundredths (0.5 is 50)             *)
(* and computes the unrounded intermediate values as exact fractions.      *)
(***************************************************************************)
EXTENDS Integers, Sequences, FiniteSets, TLC

VARIABLES
    post,          \* scoring: the PostMetrics object being built
    twin,          \* scoring: a second PostMetrics object (scaled counters)
    pc,            \* scoring: position of post in the parser loop body
    pcTwin,        \* scoring: position of twin in the parser loop body
    raised,        \* scoring: exception raised by the last step, or "none"
    tie,           \* how a float that lies exactly between two roundings falls
    history_file,  \* history: content of performance_history.json
    last_save,     \* history: the last _save_to_history call (file before, posts)
    filter_in,     \* period filter: the posts and the time datetime.now() gives
    filter_out,    \* period filter: the result of _filter_by_period per period
    brief,         \* CLI: what summarize_week returned or raised
    cli,           \* CLI: position of main(), its arguments, exit code, stderr
    pat,           \* patterns: the posts given to _detect_patterns and its result
    norm,          \* normalizers: the source record and the PostMetrics made of it
    rot,           \* hashtag rotation: the usage log and the sets picked
    race           \* two invocations of _save_to_history: position and locals

scoreVars == <<post, twin, pc, pcTwin, raised>>

histVars == <<history_file, last_save>>

filterVars == <<filter_in, filter_out>>

cliVars == <<brief, cli>>

moreVars == <<pat, norm, rot, race>>

vars == <<scoreVars, tie, histVars, filterVars, cliVars, moreVars>>

\* what the steps of one part of the program leave alone
notScoreVars == <<histVars, filterVars, cliVars, moreVars>>

notHistVars == <<scoreVars, tie, filterVars, cliVars, moreVars>>

notFilterVars == <<scoreVars, tie, histVars, cliVars, moreVars>>

notCliVars == <<scoreVars, tie, filterVars, moreVars>>

(***************************************************************************)
(* Arithmetic helpers                                                      *)
(***************************************************************************)
Min(a, b) == IF a <= b THEN a ELSE b

Max(a, b) == IF a >= b THEN a ELSE b

RECURSIVE Gcd(_, _)
Gcd(a, b) == IF b = 0 THEN a ELSE Gcd(b, a % b)

Lcm(a, b) == (a \div Gcd(a, b)) * b

\* round(n / d) for n >= 0, d > 0, to the nearest integer.  Python rounds the
\* binary float: a value that is exactly halfway in decimal is, as a float,
\* either exact (round() then goes to the even neighbour) or slightly off to
\* one side (13.625 is computed as 13.625000000000002 and rounds up).  The
\* direction depends only on the value; tie ranges over the three outcomes.
TieModes == {"even", "up", "down"}

Round(n, d) ==
    LET q == n \div d
        r == n % d
    IN  IF 2 * r < d THEN q
        ELSE IF 2 * r > d THEN q + 1
        ELSE CASE tie = "up" -> q + 1
               [] tie = "down" -> q
               [] OTHER -> IF q % 2 = 0 THEN q ELSE q + 1

(***************************************************************************)
(* NICHE_BENCHMARKS                                                        *)
(***************************************************************************)
NICHE_ORDER == <<"ttbp", "cb", "tundexai", "wellwithtunde", "tundestalksmen">>

NICHE_BENCHMARKS ==
    [n \in {NICHE_ORDER[i] : i \in 1..Len(NICHE_ORDER)} |->
        CASE n = "ttbp" ->
               [engagement_target |-> 30, comment_rate_target |-> 50,
                save_rate_target |-> 30, share_rate_target |-> 20,
                platform_scale |-> [linkedin |-> 10, instagram |-> 14, twitter |-> 6]]
          [] n = "cb" ->
               [engagement_target |-> 25, comment_rate_target |-> 40,
                save_rate_target |-> 40, share_rate_target |-> 30,
                platform_scale |-> [linkedin |-> 10, instagram |-> 16, twitter |-> 7]]
          [] n = "tundexai" ->
               [engagement_target |-> 35, comment_rate_target |-> 60,
                save_rate_target |-> 50, share_rate_target |-> 30,
                platform_scale |-> [linkedin |-> 10, instagram |-> 12, twitter |-> 8]]
          [] n = "wellwithtunde" ->
               [engagement_target |-> 20, comment_rate_target |-> 30,
                save_rate_target |-> 50, share_rate_target |-> 40,
                platform_scale |-> [linkedin |-> 10, instagram |-> 18, twitter |-> 5]]
          [] n = "tundestalksmen" ->
               [engagement_target |-> 25, comment_rate_target |-> 50,
                save_rate_target |-> 40, share_rate_target |-> 30,
                platform_scale |-> [linkedin |-> 10, instagram |-> 15, twitter |-> 7]]]

\* NICHE_BENCHMARKS.get(niche, NICHE_BENCHMARKS["ttbp"])
Bench(niche) ==
    IF niche \in DOMAIN NICHE_BENCHMARKS
    THEN NICHE_BENCHMARKS[niche] ELSE NICHE_BENCHMARKS["ttbp"]

\* bench["engagement_target"] * bench["platform_scale"].get(platform, 1.0),
\* in hundredths (tenths times tenths).
ScaledTarget(niche, platform) ==
    LET bench == Bench(niche)
        scale == IF platform \in DOMAIN bench.platform_scale
                 THEN bench.platform_scale[platform] ELSE 10
    IN  bench.engagement_target * scale

(***************************************************************************)
(* Dates and times.  A point in time is a day number and a time of day in  *)
(* 0..TicksPerDay-1.  A published_at string is one of                      *)
(*   "bad"    not an ISO date ("", "10/30/2026"): fromisoformat raises     *)
(*            ValueError                                                   *)
(*   "date"   "2026-10-30"                                                 *)
(*   "T"      "2026-10-30T12:00:00", also with a zone after the time       *)
(*   "space"  "2026-10-30 12:00:00", no zone                               *)
(*   "aware"  "2026-10-30 12:00:00+00:00": fromisoformat gives a           *)
(*            timezone-aware datetime                                      *)
(***************************************************************************)
TicksPerDay == 2

BadDate == [kind |-> "bad", day |-> 0, tod |-> 0]

IsoDate(day) == [kind |-> "date", day |-> day, tod |-> 0]

IsoT(day, tod) == [kind |-> "T", day |-> day, tod |-> tod]

IsoSpace(day, tod) == [kind |-> "space", day |-> day, tod |-> tod]

IsoAware(day, tod) == [kind |-> "aware", day |-> day, tod |-> tod]

Ticks(day, tod) == day * TicksPerDay + tod

(***************************************************************************)
(* PostMetrics                                                             *)
(***************************************************************************)
\* The constructor call of the parsers: the raw fields are given, the
\* computed fields take the dataclass defaults (0.0).
PostMetrics(row) ==
    [post_id |-> row.post_id, niche |-> row.niche, platform |-> row.platform,
     published_at |-> row.published_at, format_type |-> row.format_type,
     impressions |-> row.impressions, reach |-> row.reach, likes |-> row.likes,
     comments |-> row.comments, shares |-> row.shares, saves |-> row.saves,
     clicks |-> row.clicks,
     engagement_rate |-> 0, comment_rate |-> 0, save_rate |-> 0,
     share_rate |-> 0, click_rate |-> 0,
     benchmark_delta |-> 0, composite_score |-> 0]

(***************************************************************************)
(* _compute_rates                                                          *)
(***************************************************************************)
\* Mutations of Base: the guard against an empty reach left out, and the
\* fallback to reach left out.
BaseNoGuard(p) == IF p.impressions > 0 THEN p.impressions ELSE p.reach

BaseIgnoresReach(p) == IF p.impressions > 0 THEN p.impressions ELSE 1

\* base = post.impressions if post.impressions > 0 else max(post.reach, 1)
Base(p) == IF p.impressions > 0 THEN p.impressions ELSE Max(p.reach, 1)

\* round((num / base) * 100, 2), in hundredths
Rate(num, base) == Round(num * 10000, base)

\* The division raises ZeroDivisionError when base is 0.
ComputeRatesRaises(p) == Base(p) = 0

\* Mutation of _compute_rates: each rate added to the rate already stored.
ComputeRatesAccumulating(p) ==
    [p EXCEPT !.engagement_rate = @ + Rate(p.likes + p.comments + p.shares + p.saves, Base(p)),
              !.comment_rate = @ + Rate(p.comments, Base(p)),
              !.save_rate = @ + Rate(p.saves, Base(p)),
              !.share_rate = @ + Rate(p.shares, Base(p)),
              !.click_rate = @ + Rate(p.clicks, Base(p))]

_compute_rates(p) ==
    LET base == Base(p)
        total_eng == p.likes + p.comments + p.shares + p.saves
    IN  [p EXCEPT !.engagement_rate = Rate(total_eng, base),
                  !.comment_rate = Rate(p.comments, base),
                  !.save_rate = Rate(p.saves, base),
                  !.share_rate = Rate(p.shares, base),
                  !.click_rate = Rate(p.clicks, base)]

(***************************************************************************)
(* _score_post                                                             *)
(***************************************************************************)
\* Mutation of Component: the min(cap, ...) left out.
ComponentNoCap(cap, rate, target, den) ==
    IF target > 0 THEN cap * rate * (den \div target) ELSE 0

\* min(cap, (rate / target) * cap) if target > 0 else 0, as a numerator over
\* the denominator den (a multiple of target)
Component(cap, rate, target, den) ==
    IF target > 0 THEN cap * Min(rate, target) * (den \div target) ELSE 0

\* min(10, post.click_rate * 5): click_rate * 5 is rate / 20 in hundredths
ClickComponent(rate, den) == Min(rate, 200) * (den \div 20)

\* the common denominator of the five components
ScoreDen(bench, scaled_target) ==
    Lcm(Lcm(Lcm(Lcm(IF scaled_target > 0 THEN scaled_target ELSE 1,
                    bench.comment_rate_target),
                bench.save_rate_target),
            bench.share_rate_target),
        20)

\* Mutation of ScoreSum: the click bonus taken off instead of added.
ScoreSumClickSubtracted(eng_score, comment_score, save_score, share_score, click_score) ==
    eng_score + comment_score + save_score + share_score - click_score

\* eng_score + comment_score + save_score + share_score + click_score
ScoreSum(eng_score, comment_score, save_score, share_score, click_score) ==
    eng_score + comment_score + save_score + share_score + click_score

_score_post(p) ==
    LET bench == Bench(p.niche)
        scaled_target == ScaledTarget(p.niche, p.platform)
        den == ScoreDen(bench, scaled_target)
        eng_score == Component(50, p.engagement_rate, scaled_target, den)
        comment_score == Component(15, p.comment_rate, bench.comment_rate_target, den)
        save_score == Component(15, p.save_rate, bench.save_rate_target, den)
        share_score == Component(10, p.share_rate, bench.share_rate_target, den)
        click_score == ClickComponent(p.click_rate, den)
    IN  [p EXCEPT !.composite_score =
                      Round(10 * ScoreSum(eng_score, comment_score, save_score,
                                          share_score, click_score), den),
                  !.benchmark_delta = p.engagement_rate - scaled_target]

\* the body of the parser loops:
\*     p = PostMetrics(...); posts.append(_score_post(_compute_rates(p)))
ParseRow(row) == _score_post(_compute_rates(PostMetrics(row)))

(***************************************************************************)
(* The parts of the state that a specification does not use stay at rest.  *)
(***************************************************************************)
\* performance_history.json: absent, unparseable, or a JSON array of post dicts
NoFile == [state |-> "absent", entries |-> <<>>]

CorruptFile == [state |-> "corrupt", entries |-> <<>>]

JsonFile(entries) == [state |-> "json", entries |-> entries]

NoSave == [called |-> FALSE, before |-> <<>>, posts |-> <<>>]

HistIdle ==
    /\ history_file = NoFile
    /\ last_save = NoSave

NoPost == [post_id |-> "none"]

NotRun == [done |-> FALSE, raised |-> "none", posts |-> <<>>]

NoBrief == [raised |-> "not run"]

NoArgs == [given |-> FALSE]

CliIdle ==
    /\ brief = NoBrief
    /\ cli = [pc |-> "idle", args |-> NoArgs, exit_code |-> -1, stderr |-> FALSE,
              stdout |-> "none", source |-> "none", left |-> -1]

FilterIdle ==
    /\ filter_in = [posts |-> <<>>, now |-> [day |-> 0, tod |-> 0]]
    /\ filter_out = [period \in {"week", "month", "all"} |-> NotRun]

\* a part of the program that a specification does not use
Unused == [pc |-> "unused"]

MoreIdle ==
    /\ pat = Unused
    /\ norm = Unused
    /\ rot = Unused
    /\ race = Unused

ScoreIdle ==
    /\ post = NoPost
    /\ twin = NoPost
    /\ pc = "idle"
    /\ pcTwin = "idle"
    /\ raised = "none"
    /\ tie = "even"

(***************************************************************************)
(* Scoring: the body of the parser loops,                                  *)
(*     p = PostMetrics(...); posts.append(_score_post(_compute_rates(p)))  *)
(* run for a post and then for a second post whose impressions and         *)
(* absolute counters are those of the first times a factor.                *)
(***************************************************************************)
MaxFactor == 2

NicheVals == DOMAIN NICHE_BENCHMARKS \cup {"other"}

PlatformVals == {"linkedin", "instagram", "twitter", "tiktok"}

ScoreRows ==
    [post_id : {"p1"}, niche : NicheVals, platform : PlatformVals,
     published_at : {""}, format_type : {"narrative"},
     impressions : {0, 3, 800}, reach : {0, 2}, likes : {0, 5},
     comments : {0, 1, 5}, shares : {0, 2}, saves : {0, 3}, clicks : {0, 7}]

\* the row with impressions and every absolute counter multiplied by k
ScaleRow(row, k) ==
    [row EXCEPT !.impressions = k * @, !.reach = k * @, !.likes = k * @,
                !.comments = k * @, !.shares = k * @, !.saves = k * @,
                !.clicks = k * @]

InitScore ==
    /\ MoreIdle
    /\ tie \in TieModes
    /\ \E row \in ScoreRows, k \in 1..MaxFactor :
          /\ post = PostMetrics(row)
          /\ twin = PostMetrics(ScaleRow(row, k))
    /\ pc = "new"
    /\ pcTwin = "new"
    /\ raised = "none"
    /\ HistIdle
    /\ FilterIdle
    /\ CliIdle

ComputeRatesStep ==
    /\ pc = "new"
    /\ IF ComputeRatesRaises(post)
       THEN /\ raised' = "ZeroDivisionError"
            /\ pc' = "failed"
            /\ post' = post
       ELSE /\ raised' = raised
            /\ pc' = "rated"
            /\ post' = _compute_rates(post)
    /\ UNCHANGED <<twin, pcTwin, tie, notScoreVars>>

ScorePostStep ==
    /\ pc = "rated"
    /\ post' = _score_post(post)
    /\ pc' = "scored"
    /\ UNCHANGED <<twin, pcTwin, raised, tie, notScoreVars>>

TwinComputeRatesStep ==
    /\ pc = "scored"
    /\ pcTwin = "new"
    /\ IF ComputeRatesRaises(twin)
       THEN /\ raised' = "ZeroDivisionError"
            /\ pcTwin' = "failed"
            /\ twin' = twin
       ELSE /\ raised' = raised
            /\ pcTwin' = "rated"
            /\ twin' = _compute_rates(twin)
    /\ UNCHANGED <<post, pc, tie, notScoreVars>>

TwinScorePostStep ==
    /\ pcTwin = "rated"
    /\ twin' = _score_post(twin)
    /\ pcTwin' = "scored"
    /\ UNCHANGED <<post, pc, raised, tie, notScoreVars>>

NextScore ==
    \/ ComputeRatesStep
    \/ ScorePostStep
    \/ TwinComputeRatesStep
    \/ TwinScorePostStep

SpecScore == InitScore /\ [][NextScore]_vars

RateFields ==
    {"engagement_rate", "comment_rate", "save_rate", "share_rate", "click_rate"}

Rated(p_pc) == p_pc \in {"rated", "scored"}

\* C5: the composite_score that _score_post computes after _compute_rates
\* lies in [0, 100] (0..1000 tenths), for every niche and platform, known
\* or not, and all non-negative counters.
C5_CompositeInRange ==
    /\ pc = "scored" => post.composite_score \in 0..1000
    /\ pcTwin = "scored" => twin.composite_score \in 0..1000

\* a post of an unknown niche on an unknown platform scored at the cap, and
\* one scored strictly inside the range
C5_Witness ==
    /\ pc = "scored"
    /\ pcTwin = "scored"
    /\ post.niche = "other"
    /\ post.platform = "tiktok"
    /\ post.composite_score = 1000
    /\ post.click_rate > 200
    /\ twin.composite_score = 1000

\* C7: _compute_rates never divides by zero, every rate it computes is >= 0,
\* and a post with impressions = 0 and reach = 0 is computed with base 1:
\* its engagement_rate is 100 times its engagements, uncapped (likes = 5
\* alone gives 500%).
C7_RatesDefined ==
    /\ raised = "none"
    /\ pc # "failed"
    /\ Rated(pc) =>
          /\ \A f \in RateFields : post[f] >= 0
          /\ (post.impressions = 0 /\ post.reach = 0) =>
                post.engagement_rate =
                    10000 * (post.likes + post.comments + post.shares + post.saves)
          /\ (post.impressions = 0 /\ post.reach = 2) =>
                post.engagement_rate =
                    5000 * (post.likes + post.comments + post.shares + post.saves)
          /\ (post.impressions = 0 /\ post.reach = 0 /\ post.likes = 5
                /\ post.comments = 0 /\ post.shares = 0 /\ post.saves = 0) =>
                post.engagement_rate = 50000

C7_Witness ==
    /\ pc = "rated"
    /\ post.impressions = 0
    /\ post.reach = 0
    /\ post.likes = 5
    /\ post.comments = 0
    /\ post.shares = 0
    /\ post.saves = 0
    /\ post.engagement_rate = 50000

SameRates(p, q) == \A f \in RateFields : p[f] = q[f]

\* C8 as stated: multiplying impressions and all absolute counters by any
\* positive factor leaves the five rates unchanged.
C8_ScaleInvariantAlways ==
    (Rated(pc) /\ Rated(pcTwin)) => SameRates(post, twin)

\* C8 as amended: the rates are unchanged when impressions > 0 or reach > 0,
\* that is, when the base is one of the counters being multiplied.
C8_ScaleInvariant ==
    (Rated(pc) /\ Rated(pcTwin) /\ (post.impressions > 0 \/ post.reach > 0))
        => SameRates(post, twin)

\* a post with engagement, on reach alone, next to its doubled copy
C8_Witness ==
    /\ Rated(pc)
    /\ Rated(pcTwin)
    /\ post.impressions = 0
    /\ post.reach > 0
    /\ twin.reach = 2 * post.reach
    /\ twin.likes = 2 * post.likes
    /\ post.likes > 0
    /\ post.engagement_rate > 0
    /\ twin.engagement_rate = post.engagement_rate

(***************************************************************************)
(* Scoring as a function of the five rates: _score_post applied to a post, *)
(* and again to the same post with one rate raised.  twin keeps the post   *)
(* as it was scored before the raise.                                      *)
(***************************************************************************)
RateVals == {0, 20, 130, 600}

WithRates(p, er, cr, sr, shr, clr) ==
    [p EXCEPT !.engagement_rate = er, !.comment_rate = cr, !.save_rate = sr,
              !.share_rate = shr, !.click_rate = clr]

MonoRow(niche, platform) ==
    [post_id |-> "p1", niche |-> niche, platform |-> platform,
     published_at |-> "", format_type |-> "narrative",
     impressions |-> 0, reach |-> 0, likes |-> 0, comments |-> 0,
     shares |-> 0, saves |-> 0, clicks |-> 0]

InitMono ==
    /\ MoreIdle
    /\ tie \in TieModes
    /\ \E niche \in NicheVals, platform \in PlatformVals,
          er \in RateVals, cr \in RateVals, sr \in RateVals,
          shr \in RateVals, clr \in RateVals :
          post = WithRates(PostMetrics(MonoRow(niche, platform)),
                           er, cr, sr, shr, clr)
    /\ twin = NoPost
    /\ pc = "rated"
    /\ pcTwin = "idle"
    /\ raised = "none"
    /\ HistIdle
    /\ FilterIdle
    /\ CliIdle

MonoScore ==
    /\ pc = "rated"
    /\ post' = _score_post(post)
    /\ pc' = "scored"
    /\ UNCHANGED <<twin, pcTwin, raised, tie, notScoreVars>>

RaiseRate(f, v) ==
    /\ pc = "scored"
    /\ v > post[f]
    /\ twin' = post
    /\ post' = _score_post([post EXCEPT ![f] = v])
    /\ pc' = "rescored"
    /\ UNCHANGED <<pcTwin, raised, tie, notScoreVars>>

NextMono ==
    \/ MonoScore
    \/ \E f \in RateFields, v \in RateVals : RaiseRate(f, v)

SpecMono == InitMono /\ [][NextMono]_vars

\* C6: for a fixed niche and platform, raising one of the five rates while
\* the other four stay fixed never lowers the composite score.
C6_Monotone ==
    pc = "rescored" => post.composite_score >= twin.composite_score

\* each rate raised alone, with the score strictly higher
C6_Witness ==
    /\ pc = "rescored"
    /\ post.click_rate > twin.click_rate
    /\ post.engagement_rate = twin.engagement_rate
    /\ post.composite_score > twin.composite_score
    /\ twin.composite_score > 0

(***************************************************************************)
(* History: _save_to_history called again and again on one history file.   *)
(***************************************************************************)
MaxHist == 4

MaxBatch == 2

\* sequences over S of length 0..n
SeqUpTo(S, n) == UNION {[1..k -> S] : k \in 0..n}

\* json.load of the file; a missing file, and one that does not parse
\* (JSONDecodeError), give history = []
LoadedHistory(file) == IF file.state = "json" THEN file.entries ELSE <<>>

IdsOf(seq) == {seq[i].post_id : i \in 1..Len(seq)}

\* Mutation of _save_to_history: the new posts written instead of the
\* extended history.
SaveWritesNewPostsOnly(file, posts) ==
    LET history == LoadedHistory(file)
        existing_ids == IdsOf(history)
        NotExisting(p) == p.post_id \notin existing_ids
    IN  JsonFile(SelectSeq(posts, NotExisting))

\* Mutation of _save_to_history: every post appended, the test on
\* existing_ids left out.
SaveAppendsAll(file, posts) == JsonFile(LoadedHistory(file) \o posts)

\* the content of the file after _save_to_history(posts)
_save_to_history(file, posts) ==
    LET history == LoadedHistory(file)
        existing_ids == IdsOf(history)
        NotExisting(p) == p.post_id \notin existing_ids
        new_posts == SelectSeq(posts, NotExisting)
    IN  JsonFile(history \o new_posts)

\* posts as the parsers produce them: two post ids, each exported with two
\* different like counts
HistRows ==
    [post_id : {"a", "b"}, niche : {"ttbp"}, platform : {"linkedin"},
     published_at : {IsoDate(38)}, format_type : {"narrative"},
     impressions : {100}, reach : {100}, likes : {1, 2}, comments : {0},
     shares : {0}, saves : {0}, clicks : {0}]

HistPosts == {ParseRow(row) : row \in HistRows}

InitHistory ==
    /\ MoreIdle
    /\ history_file \in {NoFile, CorruptFile, JsonFile(<<>>)}
    /\ last_save = NoSave
    /\ ScoreIdle
    /\ FilterIdle
    /\ CliIdle

SaveToHistory(posts) ==
    /\ Len(LoadedHistory(history_file)) + Len(posts) <= MaxHist
    /\ history_file' = _save_to_history(history_file, posts)
    /\ last_save' = [called |-> TRUE, before |-> LoadedHistory(history_file),
                     posts |-> posts]
    /\ UNCHANGED notHistVars

NextHistory == \E posts \in SeqUpTo(HistPosts, MaxBatch) : SaveToHistory(posts)

SpecHistory == InitHistory /\ [][NextHistory]_vars

NoDuplicateIds(seq) ==
    \A i, j \in 1..Len(seq) : seq[i].post_id = seq[j].post_id => i = j

IsPrefix(s, t) ==
    /\ Len(s) <= Len(t)
    /\ \A i \in 1..Len(s) : s[i] = t[i]

\* C1 as stated: after any sequence of _save_to_history calls no two entries
\* of the history file share a post_id, also when a post_id occurs twice in
\* one batch.
C1_NoDuplicateIds == NoDuplicateIds(LoadedHistory(history_file))

\* C2: every _save_to_history call leaves the entries that were in the file
\* before it unchanged and in the same order, as a prefix of the new content.
C2_AppendOnly ==
    last_save.called => IsPrefix(last_save.before, LoadedHistory(history_file))

\* a call on a history that holds post "a", with a batch that holds another
\* export of "a" and a new post: the old entry stays, the new post is added
C2_Witness ==
    /\ last_save.called
    /\ Len(last_save.before) > 0
    /\ Len(history_file.entries) > Len(last_save.before)
    /\ \E i \in 1..Len(last_save.posts) :
          /\ last_save.posts[i].post_id = last_save.before[1].post_id
          /\ last_save.posts[i] # last_save.before[1]
    /\ history_file.entries[1] = last_save.before[1]

(***************************************************************************)
(* _filter_by_period                                                       *)
(***************************************************************************)
\* Mutation of Window: the two windows exchanged.
WindowExchanged(period) == IF period = "week" THEN 30 ELSE 7

\* timedelta(days=7) if period == "week" else timedelta(days=30)
Window(period) == IF period = "week" THEN 7 ELSE 30

\* cutoff = now - window
Cutoff(now, period) == Ticks(now.day, now.tod) - Window(period) * TicksPerDay

\* datetime.fromisoformat(p.published_at.split("T")[0]): the text before a
\* "T" is the date alone, a text without "T" is parsed whole
FilterParse(published_at) ==
    CASE published_at.kind = "bad" -> [ok |-> FALSE, aware |-> FALSE, ticks |-> 0]
      [] published_at.kind \in {"date", "T"} ->
            [ok |-> TRUE, aware |-> FALSE, ticks |-> Ticks(published_at.day, 0)]
      [] published_at.kind = "space" ->
            [ok |-> TRUE, aware |-> FALSE,
             ticks |-> Ticks(published_at.day, published_at.tod)]
      [] OTHER ->
            [ok |-> TRUE, aware |-> TRUE,
             ticks |-> Ticks(published_at.day, published_at.tod)]

\* dt >= cutoff raises TypeError for an aware dt (cutoff is naive); the
\* except clause catches ValueError and AttributeError only
CompareRaises(p) == FilterParse(p.published_at).ok /\ FilterParse(p.published_at).aware

\* the loop body: the record is appended when its date is unparseable or
\* dt >= cutoff
PassesDateTest(p, now, period) ==
    LET dt == FilterParse(p.published_at)
    IN  ~dt.ok \/ dt.ticks >= Cutoff(now, period)

_filter_by_period(posts, period, now) ==
    IF period = "all" THEN [done |-> TRUE, raised |-> "none", posts |-> posts]
    ELSE IF \E i \in 1..Len(posts) : CompareRaises(posts[i])
    THEN [done |-> TRUE, raised |-> "TypeError", posts |-> <<>>]
    ELSE LET Keep(p) == PassesDateTest(p, now, period)
             result == SelectSeq(posts, Keep)
         IN  [done |-> TRUE, raised |-> "none",
              posts |-> IF result # <<>> THEN result ELSE posts]

(***************************************************************************)
(* Period filter: _filter_by_period applied to one list of posts at one    *)
(* time, for each period.                                                  *)
(***************************************************************************)
MaxFilterPosts == 3

FilterRow(id, published_at) ==
    [post_id |-> id, niche |-> "ttbp", platform |-> "linkedin",
     published_at |-> published_at, format_type |-> "narrative",
     impressions |-> 100, reach |-> 100, likes |-> 2, comments |-> 0,
     shares |-> 0, saves |-> 0, clicks |-> 0]

\* with now on day 40: inside the week, on the day 7 days back (with and
\* without a time of day), inside the month only, older, unparseable, aware
\* (inside the week and older than the month)
FilterPosts ==
    {ParseRow(FilterRow("w", IsoDate(38))),
     ParseRow(FilterRow("e", IsoT(33, 1))),
     ParseRow(FilterRow("s", IsoSpace(33, 1))),
     ParseRow(FilterRow("m", IsoDate(20))),
     ParseRow(FilterRow("o", IsoDate(5))),
     ParseRow(FilterRow("x", BadDate)),
     ParseRow(FilterRow("z", IsoAware(38, 1))),
     ParseRow(FilterRow("y", IsoAware(5, 1)))}

NowVals == [day : {40}, tod : 0..(TicksPerDay - 1)]

\* lists of distinct elements of S, of length 0..n
ListsOf(S, n) ==
    {seq \in SeqUpTo(S, n) : \A i, j \in 1..Len(seq) : seq[i] = seq[j] => i = j}

InitFilter ==
    /\ MoreIdle
    /\ ScoreIdle
    /\ filter_in \in [posts : ListsOf(FilterPosts, MaxFilterPosts), now : NowVals]
    /\ filter_out = [period \in {"week", "month", "all"} |-> NotRun]
    /\ HistIdle
    /\ CliIdle

FilterByPeriod(period) ==
    /\ ~filter_out[period].done
    /\ filter_out' = [filter_out EXCEPT
                        ![period] = _filter_by_period(filter_in.posts, period,
                                                      filter_in.now)]
    /\ UNCHANGED <<filter_in, notFilterVars>>

NextFilter == \E period \in {"week", "month", "all"} : FilterByPeriod(period)

SpecFilter == InitFilter /\ [][NextFilter]_vars

Elems(seq) == {seq[i] : i \in 1..Len(seq)}

Returned(period) == filter_out[period].done /\ filter_out[period].raised = "none"

\* C3 as stated: for a fixed list of posts and a fixed now, the result for
\* "week" is a subset of the result for "month", which is a subset of the
\* result for "all".
C3_WeekInMonthInAll ==
    /\ (Returned("week") /\ Returned("month")) =>
          Elems(filter_out["week"].posts) \subseteq Elems(filter_out["month"].posts)
    /\ (Returned("month") /\ Returned("all")) =>
          Elems(filter_out["month"].posts) \subseteq Elems(filter_out["all"].posts)

\* no record passes the date test of the period: the result is the fallback
FellBack(period) ==
    \A i \in 1..Len(filter_in.posts) :
        ~PassesDateTest(filter_in.posts[i], filter_in.now, period)

\* C3 as amended: the result for "month" is a subset of the result for
\* "all"; the result for "week" is a subset of the result for "month"
\* unless the week filter falls back to the whole input (no record passes
\* the 7-day test) while the month filter does not.
C3_WeekInMonthUnlessFallback ==
    /\ (Returned("week") /\ Returned("month")
          /\ (~FellBack("week") \/ FellBack("month"))) =>
          Elems(filter_out["week"].posts) \subseteq Elems(filter_out["month"].posts)
    /\ (Returned("month") /\ Returned("all")) =>
          Elems(filter_out["month"].posts) \subseteq Elems(filter_out["all"].posts)

\* a dataset filtered to a proper subset for the month and to a proper
\* subset of that for the week
C3_Witness ==
    /\ Returned("week")
    /\ Returned("month")
    /\ Returned("all")
    /\ ~FellBack("week")
    /\ Len(filter_out["week"].posts) < Len(filter_out["month"].posts)
    /\ Len(filter_out["month"].posts) < Len(filter_out["all"].posts)

(***************************************************************************)
(* Analysis                                                                *)
(***************************************************************************)
RECURSIVE Sum(_)
Sum(seq) == IF seq = <<>> THEN 0 ELSE Head(seq) + Sum(Tail(seq))

\* list(dict.fromkeys(seq)): the distinct values in first-seen order
RECURSIVE FirstSeen(_)
FirstSeen(seq) ==
    IF seq = <<>> THEN <<>>
    ELSE LET rest == FirstSeen(SubSeq(seq, 1, Len(seq) - 1))
             last == seq[Len(seq)]
         IN  IF last \in Elems(rest) THEN rest ELSE Append(rest, last)

\* round(mean(values), 2) of values in hundredths
Mean2(values) == Round(Sum(values), Len(values))

\* round(x, 2) for x = n / d of either sign
RoundSigned(n, d) == IF n >= 0 THEN Round(n, d) ELSE 0 - Round(0 - n, d)

\* f"{x:.1f}" of a value in hundredths: the tenths
Fmt1(x) == Round(x, 10)

EngagementRates(posts) == [i \in 1..Len(posts) |-> posts[i].engagement_rate]

\* max(d, key=...) and min(d, key=...) over the keys in dict order: the
\* first key that has the extreme value
FirstMax(keys, val) ==
    keys[CHOOSE i \in 1..Len(keys) :
            /\ \A j \in 1..Len(keys) : val[keys[j]] <= val[keys[i]]
            /\ \A j \in 1..(i - 1) : val[keys[j]] < val[keys[i]]]

FirstMin(keys, val) ==
    keys[CHOOSE i \in 1..Len(keys) :
            /\ \A j \in 1..Len(keys) : val[keys[j]] >= val[keys[i]]
            /\ \A j \in 1..(i - 1) : val[keys[j]] > val[keys[i]]]

\* Mutation of SortedByScore: ascending instead of descending.
RECURSIVE SortedAscending(_)
SortedAscending(seq) ==
    IF seq = <<>> THEN <<>>
    ELSE LET rest == SortedAscending(SubSeq(seq, 1, Len(seq) - 1))
             last == seq[Len(seq)]
             k == Cardinality({i \in 1..Len(rest) :
                                 rest[i].composite_score <= last.composite_score})
         IN  SubSeq(rest, 1, k) \o <<last>> \o SubSeq(rest, k + 1, Len(rest))

\* sorted(filtered, key=lambda p: p.composite_score, reverse=True): the sort
\* is stable, posts of equal score keep their input order
RECURSIVE SortedByScore(_)
SortedByScore(seq) ==
    IF seq = <<>> THEN <<>>
    ELSE LET rest == SortedByScore(SubSeq(seq, 1, Len(seq) - 1))
             last == seq[Len(seq)]
             k == Cardinality({i \in 1..Len(rest) :
                                 rest[i].composite_score >= last.composite_score})
         IN  SubSeq(rest, 1, k) \o <<last>> \o SubSeq(rest, k + 1, Len(rest))

\* seq[:n]
Take(seq, n) == SubSeq(seq, 1, Min(n, Len(seq)))

\* Mutation of LastReversed: the last n in their order, not reversed.
LastNotReversed(seq, n) == SubSeq(seq, Len(seq) + 1 - Min(n, Len(seq)), Len(seq))

\* seq[-n:][::-1]
LastReversed(seq, n) ==
    LET m == Min(n, Len(seq))
    IN  [i \in 1..m |-> seq[Len(seq) + 1 - i]]

\* _analyze_formats: {format: avg_engagement} in first-seen order of the
\* formats, best_format, worst_format
_analyze_formats(posts) ==
    LET formats == FirstSeen([i \in 1..Len(posts) |-> posts[i].format_type])
        breakdown == [f \in Elems(formats) |->
                        LET Has(p) == p.format_type = f
                        IN  Mean2(EngagementRates(SelectSeq(posts, Has)))]
    IN  IF formats = <<>>
        THEN [formats |-> <<>>, breakdown |-> breakdown,
              best |-> "unknown", worst |-> "unknown"]
        ELSE [formats |-> formats, breakdown |-> breakdown,
              best |-> FirstMax(formats, breakdown),
              worst |-> FirstMin(formats, breakdown)]

DAYS_MAP == <<"Mon", "Tue", "Wed", "Thu", "Fri", "Sat", "Sun">>

\* datetime.fromisoformat(published_at.replace("Z", "+00:00").split("+")[0]):
\* every kind but "bad" parses, with its time of day when it has one
TimingParse(published_at) ==
    [ok |-> published_at.kind # "bad",
     day |-> DAYS_MAP[(published_at.day % 7) + 1],
     hour |-> IF published_at.kind = "date" THEN 0 ELSE published_at.tod]

\* _analyze_timing: best_day and best_hour ("N/A" without a parseable date;
\* the hour is the time of day, -1 for "N/A")
_analyze_timing(posts) ==
    LET Parses(p) == TimingParse(p.published_at).ok
        dated == SelectSeq(posts, Parses)
        days == FirstSeen([i \in 1..Len(dated) |-> TimingParse(dated[i].published_at).day])
        hours == FirstSeen([i \in 1..Len(dated) |-> TimingParse(dated[i].published_at).hour])
        day_avgs == [d \in Elems(days) |->
                       LET On(p) == TimingParse(p.published_at).day = d
                       IN  Mean2(EngagementRates(SelectSeq(dated, On)))]
        hour_avgs == [h \in Elems(hours) |->
                        LET At(p) == TimingParse(p.published_at).hour = h
                        IN  Mean2(EngagementRates(SelectSeq(dated, At)))]
    IN  IF dated = <<>>
        THEN [best_day |-> "N/A", best_hour |-> -1]
        ELSE [best_day |-> FirstMax(days, day_avgs),
              best_hour |-> FirstMax(hours, hour_avgs)]

\* a float comparison a > b of two values computed as n1 and n2 over a
\* common denominator: where the exact values are equal the floats may
\* differ in the last bit, in the direction that tie gives
FloatGreater(n1, n2) == n1 > n2 \/ (n1 = n2 /\ tie = "up")

FloatLess(n1, n2) == n1 < n2 \/ (n1 = n2 /\ tie = "down")

\* a recommendation string: its template (kind) and what fills it
Rec(kind, niche, n1, n2, n3, s1, s2) ==
    [kind |-> kind, niche |-> niche, n1 |-> n1, n2 |-> n2, n3 |-> n3,
     s1 |-> s1, s2 |-> s2]

AbsVal(x) == IF x >= 0 THEN x ELSE 0 - x

\* bench.get("save_rate_target", 0.3) with bench = NICHE_BENCHMARKS.get(niche, {})
SaveTarget(niche) ==
    IF niche \in DOMAIN NICHE_BENCHMARKS
    THEN NICHE_BENCHMARKS[niche].save_rate_target ELSE 30

_build_niche_recommendations(perf, all_posts) ==
    LET gap == IF perf.benchmark_status = "BELOW"
               THEN <<Rec("gap", perf.niche, Fmt1(perf.avg_engagement_rate),
                          Fmt1(AbsVal(perf.avg_engagement_rate - perf.benchmark_target)),
                          Fmt1(perf.benchmark_target), perf.best_format, "")>>
               ELSE <<>>
        best_rate == perf.format_breakdown[perf.best_format]
        worst_rate == perf.format_breakdown[perf.worst_format]
        shift == IF /\ perf.best_format # "unknown"
                    /\ perf.worst_format # "unknown"
                    /\ FloatGreater(10 * best_rate, 15 * worst_rate)
                 THEN <<Rec("shift", perf.niche, Fmt1(best_rate), Fmt1(worst_rate),
                            0, perf.best_format, perf.worst_format)>>
                 ELSE <<>>
        timing == IF perf.best_day # "N/A"
                  THEN <<Rec("timing", perf.niche, perf.best_hour, 0, 0,
                             perf.best_day, "")>>
                  ELSE <<>>
        repurpose == IF perf.top_performers # <<>>
                     THEN <<Rec("repurpose", perf.niche,
                                Fmt1(perf.top_performers[1].engagement_rate), 0, 0,
                                perf.top_performers[1].format_type, "")>>
                     ELSE <<>>
        OfNiche(p) == p.niche = perf.niche
        saves == [i \in 1..Len(SelectSeq(all_posts, OfNiche)) |->
                    SelectSeq(all_posts, OfNiche)[i].save_rate]
        \* avg_save > target_save * 1.5, avg_save = Sum(saves) / Len(saves)
        save == IF /\ all_posts # <<>>
                   /\ FloatGreater(10 * Sum(saves), 15 * SaveTarget(perf.niche) * Len(saves))
                THEN <<Rec("save", perf.niche, Round(Sum(saves), 10 * Len(saves)),
                           0, 0, "", "")>>
                ELSE <<>>
    IN  Take(gap \o shift \o timing \o repurpose \o save, 4)

\* the float bench["engagement_target"] * scale and the float target * 0.85
\* against the decimal products: 1 where the floats are the larger
\* (3.5 * 0.8 = 2.8000000000000003), -1 where they are the smaller
\* (3.0 * 1.4 = 4.199999999999999, 3.0 * 0.6 = 1.7999999999999998), 0 where
\* they are the floats of the decimal products
TargetError(niche, platform) ==
    IF niche = "tundexai" /\ platform = "twitter" THEN 1
    ELSE IF Bench(niche) = NICHE_BENCHMARKS["ttbp"] /\ platform \in {"instagram", "twitter"}
    THEN -1
    ELSE 0

\* ABOVE if avg_eng >= target, MEETING if avg_eng >= target * 0.85, the
\* float comparisons: at equality of the decimal values the test holds
\* unless the float target is the larger
BenchmarkStatus(avg_eng, target, error) ==
    IF avg_eng > target \/ (avg_eng = target /\ error <= 0) THEN "ABOVE"
    ELSE IF 100 * avg_eng > 85 * target \/ (100 * avg_eng = 85 * target /\ error <= 0)
    THEN "MEETING"
    ELSE "BELOW"

\* round(median(values), 2)
Median2(values) ==
    LET n == Len(values)
        \* the k-th smallest value
        Kth(k) == CHOOSE v \in Elems(values) :
                    /\ Cardinality({i \in 1..n : values[i] < v}) < k
                    /\ Cardinality({i \in 1..n : values[i] <= v}) >= k
    IN  IF n % 2 = 1 THEN Kth((n + 1) \div 2)
        ELSE Round(Kth(n \div 2) + Kth(n \div 2 + 1), 2)

\* _analyze_niche for a non-empty group (the caller drops the empty ones)
_analyze_niche(posts, niche, platform) ==
    LET InGroup(p) == p.niche = niche /\ p.platform = platform
        filtered == SelectSeq(posts, InGroup)
        target == ScaledTarget(niche, platform)
        sorted_posts == SortedByScore(filtered)
        avg_eng == Mean2(EngagementRates(filtered))
        fmt == _analyze_formats(filtered)
        timing == _analyze_timing(filtered)
        perf == [niche |-> niche, platform |-> platform,
                 post_count |-> Len(filtered),
                 avg_engagement_rate |-> avg_eng,
                 median_engagement_rate |-> Median2(EngagementRates(filtered)),
                 benchmark_target |-> target,
                 benchmark_status |-> BenchmarkStatus(avg_eng, target,
                                                     TargetError(niche, platform)),
                 top_performers |-> Take(sorted_posts, 3),
                 bottom_performers |-> LastReversed(sorted_posts, 3),
                 format_breakdown |-> fmt.breakdown,
                 best_format |-> fmt.best, worst_format |-> fmt.worst,
                 best_day |-> timing.best_day, best_hour |-> timing.best_hour,
                 recommendations |-> <<>>]
    IN  [perf EXCEPT !.recommendations = _build_niche_recommendations(perf, filtered)]

\* _compare_competitors: one insight per competitor, in input order
_compare_competitors(our_posts, competitor_data) ==
    LET n == Len(our_posts)
        total == Sum(EngagementRates(our_posts))
        Insight(comp) ==
            LET \* round(their_avg - our_avg, 2) with our_avg = total / n
                delta == IF n = 0 THEN comp.avg_engagement_rate
                         ELSE RoundSigned(comp.avg_engagement_rate * n - total, n)
            IN  [name |-> comp.name, delta_vs_ours |-> delta,
                 suggested_response |->
                    IF delta > 50
                    THEN Rec("competitor: they outperform", "", 0, 0, 0,
                             comp.top_topic, "")
                    ELSE IF delta < -50
                    THEN Rec("competitor: we outperform", "", Fmt1(AbsVal(delta)),
                             0, 0, "", "")
                    ELSE Rec("competitor: comparable", "", 0, 0, 0, "", "")]
    IN  [i \in 1..Len(competitor_data) |-> Insight(competitor_data[i])]

RECURSIVE Concat(_)
Concat(seqs) == IF seqs = <<>> THEN <<>> ELSE Head(seqs) \o Concat(Tail(seqs))

\* summarize_week, "Overall recommendations (aggregate + de-dup)": a niche
\* recommendation is added, and put in seen_recs, when it is not in
\* seen_recs; a competitor suggestion is added when it is not in seen_recs,
\* and is not put there; the first 8 are kept
OverallRecommendations(performances, competitor_insights) ==
    LET all_recs == FirstSeen(Concat([i \in 1..Len(performances) |->
                                        performances[i].recommendations]))
        seen_recs == Elems(all_recs)
        NotSeen(r) == r \notin seen_recs
        suggestions == [i \in 1..Len(competitor_insights) |->
                          competitor_insights[i].suggested_response]
    IN  Take(all_recs \o SelectSeq(suggestions, NotSeen), 8)

\* load_posts_from_file(p), or _load_history() without a data path.  A
\* directory gives the rows of its readable files, as one file would.
LoadPosts(source, file) ==
    CASE source.kind = "missing" -> [raised |-> "FileNotFoundError", posts |-> <<>>]
      [] source.kind = "unsupported" -> [raised |-> "ValueError", posts |-> <<>>]
      [] source.kind = "history" -> [raised |-> "none", posts |-> LoadedHistory(file)]
      [] OTHER -> [raised |-> "none",
                   posts |-> [i \in 1..Len(source.rows) |-> ParseRow(source.rows[i])]]

Failed(exception) ==
    [raised |-> exception, saved |-> <<>>, niche_performances |-> <<>>,
     competitor_insights |-> <<>>, overall_recommendations |-> <<>>,
     total_posts |-> 0]

\* summarize_week, "Group by (niche, platform)": the pairs of a niche and a
\* platform of the posts that some post has, niches outermost
Groups(posts) ==
    LET niches == FirstSeen([i \in 1..Len(posts) |-> posts[i].niche])
        platforms == FirstSeen([i \in 1..Len(posts) |-> posts[i].platform])
        np == Len(platforms)
        pairs == [k \in 1..(Len(niches) * np) |->
                    [niche |-> niches[((k - 1) \div np) + 1],
                     platform |-> platforms[((k - 1) % np) + 1]]]
        HasPosts(g) == \E i \in 1..Len(posts) :
                          posts[i].niche = g.niche /\ posts[i].platform = g.platform
    IN  SelectSeq(pairs, HasPosts)

\* summarize_week, the analysis of each group
Performances(posts, groups) ==
    [i \in 1..Len(groups) |->
        _analyze_niche(posts, groups[i].niche, groups[i].platform)]

\* summarize_week once the posts are loaded and filtered: the WeeklyBrief
WeeklyBrief(posts, performances, competitor_insights) ==
    [raised |-> "none", saved |-> posts,
     niche_performances |-> performances,
     competitor_insights |-> competitor_insights,
     overall_recommendations |->
         OverallRecommendations(performances, competitor_insights),
     total_posts |-> Len(posts)]

\* summarize_week, the niche and platform filters
Wanted(posts, niche_filter, platform_filter) ==
    LET Keep(p) == /\ (niche_filter # "" => p.niche = niche_filter)
                   /\ (platform_filter # "" => p.platform = platform_filter)
    IN  SelectSeq(posts, Keep)

\* Mutation of Summarized: the test for an empty list of posts left out.
SummarizedNoEmptyTest(loaded, period, competitors, niche_filter, platform_filter, now) ==
    LET in_period == _filter_by_period(loaded.posts, period, now)
        posts == Wanted(in_period.posts, niche_filter, platform_filter)
    IN  IF loaded.raised # "none" THEN Failed(loaded.raised)
        ELSE IF in_period.raised # "none" THEN Failed(in_period.raised)
        ELSE WeeklyBrief(posts, Performances(posts, Groups(posts)),
                         _compare_competitors(posts, competitors))

\* Mutation of Summarized: the test for an empty list made before the niche
\* and platform filters.
SummarizedTestBeforeFilters(loaded, period, competitors, niche_filter, platform_filter, now) ==
    LET in_period == _filter_by_period(loaded.posts, period, now)
        posts == Wanted(in_period.posts, niche_filter, platform_filter)
    IN  IF loaded.raised # "none" THEN Failed(loaded.raised)
        ELSE IF in_period.raised # "none" THEN Failed(in_period.raised)
        ELSE IF in_period.posts = <<>> THEN Failed("ValueError")
        ELSE WeeklyBrief(posts, Performances(posts, Groups(posts)),
                         _compare_competitors(posts, competitors))

\* summarize_week after the load: the period filter, the niche and platform
\* filters, "No posts found for the specified criteria"
Summarized(loaded, period, competitors, niche_filter, platform_filter, now) ==
    LET in_period == _filter_by_period(loaded.posts, period, now)
        posts == Wanted(in_period.posts, niche_filter, platform_filter)
    IN  IF loaded.raised # "none" THEN Failed(loaded.raised)
        ELSE IF in_period.raised # "none" THEN Failed(in_period.raised)
        ELSE IF posts = <<>> THEN Failed("ValueError")
        ELSE WeeklyBrief(posts, Performances(posts, Groups(posts)),
                         _compare_competitors(posts, competitors))

\* the number of posts that the load, the period filter and the niche and
\* platform filters leave; -1 when the load or the period filter raises
PostsLeft(source, period, niche_filter, platform_filter, file, now) ==
    LET loaded == LoadPosts(source, file)
        in_period == _filter_by_period(loaded.posts, period, now)
    IN  IF loaded.raised # "none" \/ in_period.raised # "none" THEN -1
        ELSE Len(Wanted(in_period.posts, niche_filter, platform_filter))

\* summarize_week: the exception it raises, or the posts it saves to the
\* history and the WeeklyBrief it returns
summarize_week(source, period, competitors, niche_filter, platform_filter, file, now) ==
    Summarized(LoadPosts(source, file), period, competitors, niche_filter,
               platform_filter, now)

(***************************************************************************)
(* main                                                                    *)
(***************************************************************************)
\* Mutation of ExitCode: the test for BELOW inverted.
ExitCodeInverted(b, json, top_topics) ==
    IF json THEN 0
    ELSE IF top_topics THEN 0
    ELSE IF \E i \in 1..Len(b.niche_performances) :
              b.niche_performances[i].benchmark_status = "BELOW"
         THEN 0 ELSE 1

\* the sys.exit of main() once summarize_week has returned: --json and
\* --top-topics print and exit 0, the report exits 1 if below else 0
ExitCode(b, json, top_topics) ==
    IF json THEN 0
    ELSE IF top_topics THEN 0
    ELSE IF \E i \in 1..Len(b.niche_performances) :
              b.niche_performances[i].benchmark_status = "BELOW"
         THEN 1 ELSE 0

MaxBriefPosts == 3

MaxCompetitors == 2

BriefRow(id, niche, platform, published_at, format_type, likes, saves) ==
    [post_id |-> id, niche |-> niche, platform |-> platform,
     published_at |-> published_at, format_type |-> format_type,
     impressions |-> 1000, reach |-> 1000, likes |-> likes, comments |-> 5,
     shares |-> 0, saves |-> saves, clicks |-> 0]

\* the three LinkedIn posts of niche "ttbp" with 10, 50 and 100 likes and a
\* "cb" post on Instagram just under its target, older than a week
BriefRows ==
    {BriefRow("likes10", "ttbp", "linkedin", IsoDate(38), "narrative", 10, 0),
     BriefRow("likes50", "ttbp", "linkedin", IsoT(39, 1), "framework", 50, 0),
     BriefRow("likes100", "ttbp", "linkedin", IsoDate(37), "narrative", 100, 0),
     BriefRow("books", "cb", "instagram", IsoDate(20), "data_shock", 23, 7)}

Competitors ==
    {[name |-> "A", avg_engagement_rate |-> 2000, top_topic |-> "ai"],
     [name |-> "B", avg_engagement_rate |-> 2500, top_topic |-> "ai"],
     [name |-> "C", avg_engagement_rate |-> 0, top_topic |-> "books"]}

Sources ==
    {[kind |-> k, rows |-> <<>>] : k \in {"missing", "unsupported", "history"}}
        \cup [kind : {"file"}, rows : ListsOf(BriefRows, MaxBriefPosts)]

NowBrief == [day |-> 40, tod |-> 1]

InitCli ==
    /\ MoreIdle
    /\ tie \in TieModes
    /\ brief = NoBrief
    /\ cli = [pc |-> "start", args |-> NoArgs, exit_code |-> -1, stderr |-> FALSE,
              stdout |-> "none", source |-> "none", left |-> -1]
    /\ history_file \in {NoFile,
                         JsonFile(<<ParseRow(BriefRow("likes10", "ttbp", "linkedin",
                                                      IsoDate(30), "narrative", 9, 0))>>),
                         JsonFile(<<ParseRow(BriefRow("likes10", "ttbp", "linkedin",
                                                      IsoDate(30), "narrative", 9, 0)),
                                    ParseRow(BriefRow("books", "cb", "instagram",
                                                      IsoDate(38), "data_shock", 23, 7))>>)}
    /\ last_save = NoSave
    /\ post = NoPost
    /\ twin = NoPost
    /\ pc = "idle"
    /\ pcTwin = "idle"
    /\ raised = "none"
    /\ FilterIdle

\* main() up to the return of summarize_week: ValueError and
\* FileNotFoundError are reported on stderr with exit code 1; any other
\* exception ends the process with a traceback and exit code 1
MainSummarize(source, period, competitors, niche_filter, platform_filter) ==
    /\ cli.pc = "start"
    /\ \E result \in {summarize_week(source, period, competitors, niche_filter,
                                      platform_filter, history_file, NowBrief)} :
          /\ brief' = result
          /\ IF result.raised = "none"
             THEN /\ history_file' = _save_to_history(history_file, result.saved)
                  /\ last_save' = [called |-> TRUE,
                                   before |-> LoadedHistory(history_file),
                                   posts |-> result.saved]
                  /\ cli' = [cli EXCEPT !.pc = "summarized",
                                         !.source = source.kind,
                                         !.left = Len(result.saved)]
             ELSE /\ UNCHANGED histVars
                  /\ cli' = [cli EXCEPT !.pc = "exited", !.exit_code = 1,
                                         !.stderr = TRUE,
                                         !.source = source.kind,
                                         !.left = PostsLeft(source, period, niche_filter,
                                                            platform_filter, history_file,
                                                            NowBrief)]
    /\ UNCHANGED notCliVars

\* main() after summarize_week
MainOutput(json, top_topics) ==
    /\ cli.pc = "summarized"
    /\ cli' = [cli EXCEPT !.pc = "exited",
                           !.args = [given |-> TRUE, json |-> json,
                                     top_topics |-> top_topics],
                           !.exit_code = ExitCode(brief, json, top_topics),
                           !.stdout = IF json THEN "json"
                                      ELSE IF top_topics THEN "topics"
                                      ELSE "report"]
    /\ UNCHANGED <<brief, histVars, notCliVars>>

\* main() with --post-id: the deep dive loads the file itself and exits 0;
\* an exception of the load is not caught
MainDeepDive(source) ==
    /\ cli.pc = "start"
    /\ cli' = [cli EXCEPT !.pc = "exited",
                           !.args = [given |-> TRUE, post_id |-> TRUE],
                           !.exit_code = IF LoadPosts(source, history_file).raised = "none"
                                         THEN 0 ELSE 1,
                           !.stderr = LoadPosts(source, history_file).raised # "none",
                           !.stdout = IF LoadPosts(source, history_file).raised = "none"
                                      THEN "deep dive" ELSE "none"]
    /\ UNCHANGED <<brief, histVars, notCliVars>>

NextCli ==
    \/ \E source \in Sources, period \in {"week", "month", "all"},
          competitors \in ListsOf(Competitors, MaxCompetitors),
          niche_filter \in {"", "ttbp"}, platform_filter \in {"", "linkedin"} :
          MainSummarize(source, period, competitors, niche_filter, platform_filter)
    \/ \E json \in BOOLEAN, top_topics \in BOOLEAN : MainOutput(json, top_topics)
    \/ \E source \in Sources : MainDeepDive(source)

SpecCli == InitCli /\ [][NextCli]_vars

(***************************************************************************)
(* The scenario of three LinkedIn posts                                    *)
(***************************************************************************)
\* the brief is that of three "ttbp" posts on LinkedIn with 1000 impressions,
\* 5 comments, no shares, saves or clicks, and 10, 50 and 100 likes
IsScenario ==
    /\ brief.raised = "none"
    /\ Len(brief.saved) = 3
    /\ \A i \in 1..3 :
          /\ brief.saved[i].niche = "ttbp"
          /\ brief.saved[i].platform = "linkedin"
          /\ brief.saved[i].impressions = 1000
          /\ brief.saved[i].comments = 5
          /\ brief.saved[i].shares = 0
          /\ brief.saved[i].saves = 0
          /\ brief.saved[i].clicks = 0
    /\ {brief.saved[i].likes : i \in 1..3} = {10, 50, 100}

ByLikes(n) == CHOOSE p \in Elems(brief.saved) : p.likes = n

\* the first, in the order of the input, of the posts with 50 and 100 likes
FirstOfCapped ==
    brief.saved[CHOOSE i \in 1..3 :
                   /\ brief.saved[i].likes \in {50, 100}
                   /\ \A j \in 1..(i - 1) : brief.saved[j].likes = 10]

ScenarioRates ==
    /\ ByLikes(10).engagement_rate = 150
    /\ ByLikes(50).engagement_rate = 550
    /\ ByLikes(100).engagement_rate = 1050

\* C4 as stated: in the scenario the engagement rates are 1.5, 5.5 and 10.5,
\* the composite scores increase strictly with the likes, and
\* top_performers[0] is the post with 100 likes.
C4_ScenarioStrictlyIncreasing ==
    IsScenario =>
        /\ ScenarioRates
        /\ ByLikes(10).composite_score < ByLikes(50).composite_score
        /\ ByLikes(50).composite_score < ByLikes(100).composite_score
        /\ Len(brief.niche_performances) = 1
        /\ brief.niche_performances[1].top_performers[1].likes = 100

\* C4 amended: in the scenario the engagement rates are 1.5, 5.5 and 10.5,
\* the composite scores are 40.0, 65.0 and 65.0 (the engagement component is
\* capped, so the posts with 50 and 100 likes tie), and top_performers[0] is
\* whichever of those two posts comes first in the input.
C4_ScenarioNonDecreasing ==
    IsScenario =>
        /\ ScenarioRates
        /\ ByLikes(10).composite_score = 400
        /\ ByLikes(50).composite_score = 650
        /\ ByLikes(100).composite_score = 650
        /\ Len(brief.niche_performances) = 1
        /\ brief.niche_performances[1].top_performers[1] = FirstOfCapped

\* the scenario with the post of 50 likes ahead of the post of 100 likes
C4_Witness ==
    /\ IsScenario
    /\ cli.pc = "summarized"
    /\ brief.niche_performances[1].top_performers[1].likes = 50

(***************************************************************************)
(* Overall recommendations                                                 *)
(***************************************************************************)
\* C9: in the brief returned by summarize_week, overall_recommendations
\* contains no string twice, for any niches and any list of competitors.
C9_NoRecommendationTwice ==
    brief.raised = "none" =>
        \A i, j \in 1..Len(brief.overall_recommendations) :
            brief.overall_recommendations[i] = brief.overall_recommendations[j]
                => i = j

(***************************************************************************)
(* Exit code                                                               *)
(***************************************************************************)
SomeBelow ==
    \E i \in 1..Len(brief.niche_performances) :
        brief.niche_performances[i].benchmark_status = "BELOW"

\* main() has printed the brief in some form and exited
Reported == cli.pc = "exited" /\ brief.raised = "none"

PlainReport == ~cli.args.json /\ ~cli.args.top_topics

Finding(rule, fmt, n1, n2, n3) ==
    [rule |-> rule, fmt |-> fmt, n1 |-> n1, n2 |-> n2, n3 |-> n3]

\* the "Format gap" loop body for one format: no, one finding
FormatGap(posts, fmt) ==
    LET Is(p) == p.format_type = fmt
        IsNot(p) == p.format_type # fmt
        rates == EngagementRates(SelectSeq(posts, Is))
        others == EngagementRates(SelectSeq(posts, IsNot))
        sa == Sum(rates)
        na == Len(rates)
        so == Sum(others)
        no == Len(others)
    IN  IF no = 0 THEN <<>>
        ELSE IF FloatGreater(10 * sa * no, 15 * so * na)
        THEN <<Finding("format over", fmt, Round(sa, 10 * na), Round(so, 10 * no),
                       Round(sa * no - so * na, 10 * na * no))>>
        ELSE IF FloatLess(10 * sa * no, 7 * so * na)
        THEN <<Finding("format under", fmt, Round(sa, 10 * na), Round(so, 10 * no), 0)>>
        ELSE <<>>

\* max(set(formats), key=formats.count): the first format, in the iteration
\* order of the set, that no other format outnumbers.  The order of a set of
\* strings changes from one interpreter run to the next (set_order).
Dominant(cluster, set_order) ==
    LET Count(f) == Cardinality({i \in 1..Len(cluster) : cluster[i].format_type = f})
        present == SelectSeq(set_order, LAMBDA f : Count(f) > 0)
    IN  present[CHOOSE i \in 1..Len(present) :
                   /\ \A j \in 1..Len(present) : Count(present[j]) <= Count(present[i])
                   /\ \A j \in 1..(i - 1) : Count(present[j]) < Count(present[i])]

HighSave(posts) == SelectSeq(posts, LAMBDA p : p.save_rate > 50)

HighComment(posts) == SelectSeq(posts, LAMBDA p : p.comment_rate > 50)

LowPerformers(posts) == SelectSeq(posts, LAMBDA p : p.benchmark_delta < -150)

\* the findings of a cluster rule: one when the cluster has at least least posts
Cluster(rule, cluster, least, set_order) ==
    IF Len(cluster) >= least
    THEN <<Finding(rule, Dominant(cluster, set_order), 0, 0, 0)>>
    ELSE <<>>

\* patterns before the return
PatternsComputed(posts, set_order) ==
    LET formats == FirstSeen([i \in 1..Len(posts) |-> posts[i].format_type])
    IN  Concat([i \in 1..Len(formats) |-> FormatGap(posts, formats[i])])
        \o Cluster("high save", HighSave(posts), 2, set_order)
        \o Cluster("comments", HighComment(posts), 1, set_order)
        \o Cluster("low performers", LowPerformers(posts), 2, set_order)

\* Mutation of _detect_patterns: the cap left out.
DetectPatternsNoCap(posts, set_order) ==
    IF posts = <<>> THEN <<>> ELSE PatternsComputed(posts, set_order)

_detect_patterns(posts, set_order) ==
    IF posts = <<>> THEN <<>> ELSE Take(PatternsComputed(posts, set_order), 5)

MaxPatternPosts == 4

PatternFormats == <<"narrative", "framework", "data_shock", "question_only">>

PatternRow(id, format_type, likes, comments, saves) ==
    [post_id |-> id, niche |-> "ttbp", platform |-> "linkedin",
     published_at |-> IsoDate(38), format_type |-> format_type,
     impressions |-> 1000, reach |-> 1000, likes |-> likes, comments |-> comments,
     shares |-> 0, saves |-> saves, clicks |-> 0]

PatternPosts ==
    {ParseRow(PatternRow("p1", "narrative", 100, 6, 6)),
     ParseRow(PatternRow("p2", "framework", 20, 0, 6)),
     ParseRow(PatternRow("p3", "data_shock", 5, 0, 0)),
     ParseRow(PatternRow("p4", "question_only", 8, 0, 0)),
     ParseRow(PatternRow("p5", "narrative", 4, 0, 0)),
     ParseRow(PatternRow("p6", "framework", 9, 6, 0))}

\* the orders in which a set of the formats can be iterated
SetOrders ==
    {o \in [1..Len(PatternFormats) -> Elems(PatternFormats)] :
        \A i, j \in 1..Len(PatternFormats) : o[i] = o[j] => i = j}

notPatVars == <<scoreVars, tie, histVars, filterVars, cliVars, norm, rot, race>>

InitPatterns ==
    /\ tie \in TieModes
    /\ \E posts \in ListsOf(PatternPosts, MaxPatternPosts), set_order \in SetOrders :
          pat = [pc |-> "new", posts |-> posts, set_order |-> set_order, out |-> <<>>]
    /\ post = NoPost
    /\ twin = NoPost
    /\ pc = "idle"
    /\ pcTwin = "idle"
    /\ raised = "none"
    /\ HistIdle
    /\ FilterIdle
    /\ CliIdle
    /\ norm = Unused
    /\ rot = Unused
    /\ race = Unused

DetectPatterns ==
    /\ pat.pc = "new"
    /\ pat' = [pat EXCEPT !.pc = "done",
                          !.out = _detect_patterns(pat.posts, pat.set_order)]
    /\ UNCHANGED notPatVars

NextPatterns == DetectPatterns

SpecPatterns == InitPatterns /\ [][NextPatterns]_vars

\* the place of a rule in the code
RuleRank(finding) ==
    CASE finding.rule \in {"format over", "format under"} -> 1
      [] finding.rule = "high save" -> 2
      [] finding.rule = "comments" -> 3
      [] finding.rule = "low performers" -> 4

\* the place of the first post of a format in the input
FirstPostOf(fmt) ==
    CHOOSE i \in 1..Len(pat.posts) :
        /\ pat.posts[i].format_type = fmt
        /\ \A j \in 1..(i - 1) : pat.posts[j].format_type # fmt

\* the cluster rules whose condition the input meets
ClusterRulesMet ==
    {f \in {Finding("high save", "", 0, 0, 2), Finding("comments", "", 0, 0, 3),
            Finding("low performers", "", 0, 0, 4)} :
        CASE f.rule = "high save" -> Len(HighSave(pat.posts)) >= 2
          [] f.rule = "comments" -> Len(HighComment(pat.posts)) >= 1
          [] f.rule = "low performers" -> Len(LowPerformers(pat.posts)) >= 2}

HasRule(rule) == \E i \in 1..Len(pat.out) : pat.out[i].rule = rule

\* C11: _detect_patterns returns at most 5 findings, and they are the first 5
\* computed in rule order: format findings in the order the formats appear,
\* then high-save, comments, low performers; a rule whose condition is met is
\* missing only when 5 findings of earlier rules fill the result.
C11_AtMostFiveInRuleOrder ==
    pat.pc = "done" =>
        /\ Len(pat.out) <= 5
        /\ \A i, j \in 1..Len(pat.out) :
              i < j =>
                 /\ RuleRank(pat.out[i]) <= RuleRank(pat.out[j])
                 /\ RuleRank(pat.out[j]) = 1 =>
                       FirstPostOf(pat.out[i].fmt) < FirstPostOf(pat.out[j].fmt)
        /\ \A f \in ClusterRulesMet :
              \/ HasRule(f.rule)
              \/ /\ Len(pat.out) = 5
                 /\ \A i \in 1..5 : RuleRank(pat.out[i]) < f.n3

\* six findings computed: the low-performers finding is the one dropped
C11_Witness ==
    /\ pat.pc = "done"
    /\ Len(pat.out) = 5
    /\ Len(LowPerformers(pat.posts)) >= 2
    /\ ~HasRule("low performers")
    /\ HasRule("comments")

(***************************************************************************)
(* No post left                                                            *)
(***************************************************************************)
\* C12: when the file is missing summarize_week raises FileNotFoundError, and
\* when loading and filtering leave no post it raises ValueError; main()
\* turns either into a message on stderr and exit code 1, and prints nothing
\* on stdout.
C12_NoPostsExitOne ==
    /\ cli.source = "missing" => brief.raised = "FileNotFoundError"
    /\ cli.left = 0 => brief.raised = "ValueError"
    /\ brief.raised \in {"ValueError", "FileNotFoundError"} =>
          /\ cli.pc = "exited"
          /\ cli.exit_code = 1
          /\ cli.stderr
          /\ cli.stdout = "none"

\* a file whose posts the niche or platform filter all removes
C12_Witness ==
    /\ cli.source = "file"
    /\ cli.left = 0
    /\ brief.raised = "ValueError"
    /\ cli.exit_code = 1

(***************************************************************************)
(* Period filter: fallback and window                                      *)
(***************************************************************************)
\* C13: for "week" and "month", when no record of the input passes the date
\* test, _filter_by_period returns the whole unfiltered input, and a
\* non-empty input never yields an empty result.
C13_FallbackReturnsInput ==
    \A period \in {"week", "month"} :
        filter_out[period].done =>
            /\ FellBack(period) =>
                  /\ filter_out[period].raised = "none"
                  /\ filter_out[period].posts = filter_in.posts
            /\ (filter_out[period].raised = "none" /\ filter_in.posts # <<>>) =>
                  filter_out[period].posts # <<>>

\* the moment a published_at text names: its day and, when it has one, its
\* time of day
PublishedTicks(published_at) ==
    Ticks(published_at.day,
          IF published_at.kind = "date" THEN 0 ELSE published_at.tod)

\* published at or after now minus the window, or not parseable
InWindow(p, now, period) ==
    \/ p.published_at.kind = "bad"
    \/ PublishedTicks(p.published_at) >= Cutoff(now, period)

\* C19: for "week" and "month", when at least one record qualifies,
\* _filter_by_period returns, in input order, exactly the records published
\* at or after now minus the window and the records whose published_at
\* cannot be parsed; a record published inside the window is never dropped,
\* whatever its time of day.
C19_ExactlyTheWindow ==
    \A period \in {"week", "month"} :
        (/\ filter_out[period].done
         /\ \E i \in 1..Len(filter_in.posts) :
               InWindow(filter_in.posts[i], filter_in.now, period)) =>
            /\ filter_out[period].raised = "none"
            /\ filter_out[period].posts =
                  SelectSeq(filter_in.posts,
                            LAMBDA p : InWindow(p, filter_in.now, period))

(***************************************************************************)
(* Normalizers.  A field of a source record is absent ("missing") or holds *)
(* a JSON number without fraction ("int"), a numeric string such as        *)
(* "1,234" or "-5" ("str", n its value), a number or string with a         *)
(* fraction such as 12.5 ("float"), or anything else: a word, null, a      *)
(* boolean ("text").  A platform field is absent, null, or a string.       *)
(***************************************************************************)
Missing == [kind |-> "missing", n |-> 0]

RawInt(n) == [kind |-> "int", n |-> n]

RawStr(n) == [kind |-> "str", n |-> n]

RawFloat(n) == [kind |-> "float", n |-> n]

RawText == [kind |-> "text", n |-> 0]

\* dict.get(key, default)
Get(field, default) == IF field.kind = "missing" THEN default ELSE field

\* int(str(val).replace(",", "").strip()), 0 on ValueError or TypeError:
\* int() reads an optional sign and digits, and rejects a fraction
_safe_int(val) ==
    IF val.kind \in {"int", "str"} THEN val.n ELSE 0

PlatformMissing == [kind |-> "missing", s |-> ""]

PlatformNull == [kind |-> "null", s |-> ""]

PlatformStr(s) == [kind |-> "str", s |-> s]

\* str.lower() on the platform names of the model
Lower(s) ==
    CASE s = "Instagram" -> "instagram"
      [] s = "LinkedIn" -> "linkedin"
      [] OTHER -> s

\* the PostMetrics a normalizer builds, then _score_post(_compute_rates(p))
Normalized(platform, impressions, reach, likes, comments, shares, saves, clicks) ==
    [raised |-> "none",
     post |-> ParseRow([post_id |-> "n", niche |-> "ttbp", platform |-> platform,
                        published_at |-> IsoDate(38), format_type |-> "narrative",
                        impressions |-> impressions, reach |-> reach,
                        likes |-> likes, comments |-> comments, shares |-> shares,
                        saves |-> saves, clicks |-> clicks])]

NormalizeRaised(exception) == [raised |-> exception, post |-> NoPost]

\* the loop body of _parse_contentstudio_json for one item
_parse_contentstudio_json(item) ==
    LET platform == Get(item.platform,
                        Get(item.social_account_type, PlatformStr("linkedin")))
    IN  IF platform.kind = "null"
        THEN NormalizeRaised("AttributeError")
        ELSE Normalized(Lower(platform.s),
                        _safe_int(Get(item.impressions, Get(item.reach, RawInt(0)))),
                        _safe_int(Get(item.reach, RawInt(0))),
                        _safe_int(Get(item.likes, RawInt(0))),
                        _safe_int(Get(item.comments, RawInt(0))),
                        _safe_int(Get(item.rest, RawInt(0))),
                        _safe_int(Get(item.rest, RawInt(0))),
                        _safe_int(Get(item.rest, RawInt(0))))

\* the loop body of _parse_linkedin_csv for one row
_parse_linkedin_csv(row) ==
    Normalized("linkedin",
               _safe_int(Get(row.impressions, RawInt(0))),
               _safe_int(Get(row.reach, RawInt(0))),
               _safe_int(Get(row.likes, RawInt(0))),
               _safe_int(Get(row.comments, RawInt(0))),
               _safe_int(Get(row.rest, RawInt(0))),
               0,
               _safe_int(Get(row.rest, RawInt(0))))

\* the loop body of _parse_instagram_csv for one row
_parse_instagram_csv(row) ==
    Normalized("instagram",
               _safe_int(Get(row.impressions, RawInt(0))),
               _safe_int(Get(row.reach, RawInt(0))),
               _safe_int(Get(row.likes, RawInt(0))),
               _safe_int(Get(row.comments, RawInt(0))),
               _safe_int(Get(row.rest, RawInt(0))),
               _safe_int(Get(row.rest, RawInt(0))),
               _safe_int(Get(row.rest, RawInt(0))))

\* the loop body of _parse_twitter_csv for one row
_parse_twitter_csv(row) ==
    Normalized("twitter",
               _safe_int(Get(row.impressions, RawInt(0))),
               _safe_int(Get(row.impressions, RawInt(0))),
               _safe_int(Get(row.likes, RawInt(0))),
               _safe_int(Get(row.comments, RawInt(0))),
               _safe_int(Get(row.rest, RawInt(0))),
               _safe_int(Get(row.rest, RawInt(0))),
               _safe_int(Get(row.rest, RawInt(0))))

RawVals == {Missing, RawInt(7), RawInt(-5), RawStr(1234), RawFloat(12), RawText}

PlatformRawVals ==
    {PlatformMissing, PlatformNull, PlatformStr("linkedin"),
     PlatformStr("Instagram"), PlatformStr("facebook")}

Normalizers == {"contentstudio", "linkedin", "instagram", "twitter"}

\* the source records: a CSV row has no platform column
SourceItems ==
    [platform : PlatformRawVals,
     social_account_type : {PlatformMissing, PlatformStr("twitter")},
     impressions : RawVals, reach : RawVals, likes : RawVals,
     comments : {Missing, RawInt(7), RawText}, rest : {Missing, RawStr(1234)}]

notNormVars == <<scoreVars, tie, histVars, filterVars, cliVars, pat, rot, race>>

InitNorm ==
    /\ tie \in TieModes
    /\ \E source \in Normalizers, item \in SourceItems :
          /\ source # "contentstudio" =>
                /\ item.platform = PlatformMissing
                /\ item.social_account_type = PlatformMissing
          /\ norm = [pc |-> "new", source |-> source, item |-> item,
                     raised |-> "none", post |-> NoPost]
    /\ post = NoPost
    /\ twin = NoPost
    /\ pc = "idle"
    /\ pcTwin = "idle"
    /\ raised = "none"
    /\ HistIdle
    /\ FilterIdle
    /\ CliIdle
    /\ pat = Unused
    /\ rot = Unused
    /\ race = Unused

\* one record through the normalizer of its source
Normalize(source, result) ==
    /\ norm.pc = "new"
    /\ norm.source = source
    /\ norm' = [norm EXCEPT !.pc = "done", !.raised = result.raised,
                            !.post = result.post]
    /\ UNCHANGED notNormVars

ParseContentStudio == Normalize("contentstudio", _parse_contentstudio_json(norm.item))

ParseLinkedIn == Normalize("linkedin", _parse_linkedin_csv(norm.item))

ParseInstagram == Normalize("instagram", _parse_instagram_csv(norm.item))

ParseTwitter == Normalize("twitter", _parse_twitter_csv(norm.item))

NextNorm ==
    \/ ParseContentStudio
    \/ ParseLinkedIn
    \/ ParseInstagram
    \/ ParseTwitter

SpecNorm == InitNorm /\ [][NextNorm]_vars

RawCounters == {"impressions", "reach", "likes", "comments", "shares", "saves", "clicks"}

\* C14: every raw counter of the PostRecord a normalizer produces is a
\* non-negative integer whatever the source field holds; a malformed or
\* missing field becomes 0, and no counter field makes the normalizer raise.
C14_CountersNonNegative ==
    norm.pc = "done" =>
        /\ norm.item.platform # PlatformNull => norm.raised = "none"
        /\ norm.raised = "none" =>
              /\ \A c \in RawCounters : norm.post[c] \in Nat
              /\ norm.item.likes.kind \in {"missing", "float", "text"} =>
                    norm.post.likes = 0

\* the platform field the ContentStudio normalizer reads
PlatformGiven ==
    Get(norm.item.platform, norm.item.social_account_type)

\* C15: a source record whose platform is missing or is not one of linkedin,
\* instagram, twitter is normalized to a PostRecord with platform "linkedin".
C15_UnknownPlatformIsLinkedIn ==
    (/\ norm.pc = "done"
     /\ norm.source = "contentstudio"
     /\ \/ PlatformGiven.kind # "str"
        \/ Lower(PlatformGiven.s) \notin {"linkedin", "instagram", "twitter"}) =>
        /\ norm.raised = "none"
        /\ norm.post.platform = "linkedin"

(***************************************************************************)
(* Recomputing the derived fields of a scored post                         *)
(***************************************************************************)
\* a post as a normalizer returns it; twin keeps it as it was
InitRecompute ==
    /\ MoreIdle
    /\ tie \in TieModes
    /\ \E row \in ScoreRows :
          /\ post = ParseRow(row)
          /\ twin = ParseRow(row)
    /\ pc = "scored"
    /\ pcTwin = "kept"
    /\ raised = "none"
    /\ HistIdle
    /\ FilterIdle
    /\ CliIdle

RecomputeRates ==
    /\ pc = "scored"
    /\ pcTwin = "kept"
    /\ post' = _compute_rates(post)
    /\ pc' = "rerated"
    /\ UNCHANGED <<twin, pcTwin, raised, tie, notScoreVars>>

RecomputeScore ==
    /\ pc = "rerated"
    /\ post' = _score_post(post)
    /\ pc' = "rescored"
    /\ UNCHANGED <<twin, pcTwin, raised, tie, notScoreVars>>

NextRecompute == RecomputeRates \/ RecomputeScore

SpecRecompute == InitRecompute /\ [][NextRecompute]_vars

DerivedFields == RateFields \cup {"benchmark_delta", "composite_score"}

\* C16: applying _compute_rates and then _score_post a second time to a
\* scored post leaves the five rates, benchmark_delta and composite_score
\* unchanged.
C16_RecomputeIdempotent ==
    pc \in {"rerated", "rescored"} =>
        \A f \in DerivedFields : post[f] = twin[f]

\* a post with non-zero rates and score, recomputed
C16_Witness ==
    /\ pc = "rescored"
    /\ pcTwin = "kept"
    /\ post.engagement_rate > 0
    /\ post.composite_score > 0
    /\ post.benchmark_delta # 0

(***************************************************************************)
(* Two invocations of _save_to_history on one history file.  Each reads   *)
(* the file (json.load), opens it for writing, which empties it, and      *)
(* dumps its list; nothing locks the file between these steps.            *)
(***************************************************************************)
Invocations == {"A", "B"}

Other(i) == IF i = "A" THEN "B" ELSE "A"

\* new_posts: the posts whose id the history read does not hold
NewPosts(history, posts) ==
    SelectSeq(posts, LAMBDA p : p.post_id \notin IdsOf(history))

\* Mutation of Dumped: the new posts dumped without the history read.
DumpedNewPostsOnly(history, posts) == JsonFile(NewPosts(history, posts))

\* history.extend(new_posts); json.dump(history, f)
Dumped(history, posts) == JsonFile(history \o NewPosts(history, posts))

RaceRows ==
    [post_id : {"a", "b", "c"}, niche : {"ttbp"}, platform : {"linkedin"},
     published_at : {IsoDate(38)}, format_type : {"narrative"},
     impressions : {100}, reach : {100}, likes : {1}, comments : {0},
     shares : {0}, saves : {0}, clicks : {0}]

RacePosts == {ParseRow(row) : row \in RaceRows}

notRaceVars == <<scoreVars, tie, last_save, filterVars, cliVars, pat, norm, rot>>

InitRace ==
    /\ history_file \in {NoFile, CorruptFile, JsonFile(<<>>)}
                            \cup {JsonFile(<<p>>) : p \in RacePosts}
    /\ \E a \in SeqUpTo(RacePosts, MaxBatch), b \in SeqUpTo(RacePosts, MaxBatch) :
          race = [pc |-> [i \in Invocations |-> "start"],
                  posts |-> [i \in Invocations |-> IF i = "A" THEN a ELSE b],
                  history |-> [i \in Invocations |-> <<>>],
                  initial |-> LoadedHistory(history_file),
                  overlapped |-> FALSE]
    /\ last_save = NoSave
    /\ ScoreIdle
    /\ FilterIdle
    /\ CliIdle
    /\ pat = Unused
    /\ norm = Unused
    /\ rot = Unused

\* if HISTORY_FILE.exists(): history = json.load(f), [] when it does not parse
RaceRead(i) ==
    /\ race.pc[i] = "start"
    /\ race' = [race EXCEPT !.pc[i] = "read",
                            !.history[i] = LoadedHistory(history_file),
                            !.overlapped = @ \/ race.pc[Other(i)] \in {"read", "opened"}]
    /\ UNCHANGED <<history_file, notRaceVars>>

\* open(HISTORY_FILE, "w"): the file exists and is empty
RaceOpen(i) ==
    /\ race.pc[i] = "read"
    /\ history_file' = CorruptFile
    /\ race' = [race EXCEPT !.pc[i] = "opened"]
    /\ UNCHANGED notRaceVars

\* json.dump(history, f)
RaceDump(i) ==
    /\ race.pc[i] = "opened"
    /\ history_file' = Dumped(race.history[i], race.posts[i])
    /\ race' = [race EXCEPT !.pc[i] = "done"]
    /\ UNCHANGED notRaceVars

NextRace ==
    \E i \in Invocations :
        \/ RaceRead(i)
        \/ RaceOpen(i)
        \/ RaceDump(i)

SpecRace == InitRace /\ [][NextRace]_vars

BothDone == \A i \in Invocations : race.pc[i] = "done"

\* the ids an invocation was to append that the file does not hold
LostIds(i) == IdsOf(race.posts[i]) \ IdsOf(LoadedHistory(history_file))

\* C18: run one after the other, two invocations of _save_to_history lose
\* no entry (the file holds every id it held before and every id of both
\* batches); entries are missing only when the invocations interleave, one
\* reading the file before the other has written it.
C18_LostOnlyWhenInterleaved ==
    (BothDone /\ ~race.overlapped) =>
        /\ history_file.state = "json"
        /\ IdsOf(race.initial) \subseteq IdsOf(LoadedHistory(history_file))
        /\ \A i \in Invocations : LostIds(i) = {}

\* both invocations read the file before either wrote it, and the entries
\* one of them appended are missing from the final file
C18_Witness ==
    /\ BothDone
    /\ race.overlapped
    /\ race.history["A"] = race.initial
    /\ race.history["B"] = race.initial
    /\ LostIds("A") # {}
    /\ LostIds("B") = {}

(***************************************************************************)
(* hashtag_strategist.py: the hashtag pools, the usage history, the        *)
(* rotation set picked for a post and the week of sets.                    *)
(***************************************************************************)
VALID_NICHES == {"ttbp", "cb", "tundexai", "wellwithtunde", "tundestalksmen"}

PLATFORM_LIMITS ==
    [linkedin |-> [max |-> 30, sweet_spot |-> <<3, 5>>, placement |-> "bottom"],
     instagram |-> [max |-> 30, sweet_spot |-> <<10, 15>>, placement |-> "caption_or_comment"],
     twitter |-> [max |-> 10, sweet_spot |-> <<1, 2>>, placement |-> "inline_or_end"],
     x |-> [max |-> 10, sweet_spot |-> <<1, 2>>, placement |-> "inline_or_end"]]

COOLDOWN_POSTS == 3

\* a pool entry: the tag and its topic affinities (none when the entry has no "topics")
TagInfo(tag, topics) == [tag |-> tag, topics |-> topics]

HASHTAG_POOLS ==
    [ttbp |-> [
        broad |-> <<
            TagInfo("#Leadership", <<>>),
            TagInfo("#Management", <<>>),
            TagInfo("#Career", <<>>),
            TagInfo("#Business", <<>>),
            TagInfo("#Strategy", <<>>),
            TagInfo("#WorkplaceWellness", <<>>)>>,
        niche |-> <<
            TagInfo("#CareerGrowth", <<"promotion", "plateau", "growth">>),
            TagInfo("#ManagementInsights", <<"management", "manager", "team">>),
            TagInfo("#ProfessionalDevelopment", <<"skills", "development", "learning">>),
            TagInfo("#MiddleManagement", <<"middle", "plateau", "manager">>),
            TagInfo("#CorporateCulture", <<"culture", "corporate", "organization">>),
            TagInfo("#ExecutivePresence", <<"executive", "presence", "influence">>),
            TagInfo("#WorkplaceIntelligence", <<"workplace", "culture", "smart">>)>>,
        micro |-> <<
            TagInfo("#AfricanLeaders", <<"africa", "nigerian", "diaspora">>),
            TagInfo("#NigerianProfessionals", <<"nigerian", "nigeria">>),
            TagInfo("#LeadershipInAfrica", <<"africa", "leadership">>),
            TagInfo("#DiasporaLeadership", <<"diaspora", "african american", "nigerian">>),
            TagInfo("#BlackLeaders", <<"black", "diverse", "inclusion">>)>>,
        rotation_sets |-> [
            A |-> <<"#Leadership", "#CareerGrowth", "#ManagementInsights", "#AfricanLeaders">>,
            B |-> <<"#Management", "#ProfessionalDevelopment", "#CorporateCulture", "#NigerianProfessionals">>,
            C |-> <<"#Leadership", "#ExecutivePresence", "#MiddleManagement", "#DiasporaLeadership">>,
            D |-> <<"#Career", "#CareerGrowth", "#WorkplaceIntelligence", "#BlackLeaders">>,
            E |-> <<"#Strategy", "#ManagementInsights", "#ProfessionalDevelopment", "#LeadershipInAfrica">>]],
     cb |-> [
        broad |-> <<
            TagInfo("#Books", <<>>),
            TagInfo("#Literature", <<>>),
            TagInfo("#Reading", <<>>),
            TagInfo("#Writing", <<>>),
            TagInfo("#Culture", <<>>)>>,
        niche |-> <<
            TagInfo("#AfricanLiterature", <<"african", "literature", "fiction">>),
            TagInfo("#Bookstagram", <<"book", "reading", "review">>),
            TagInfo("#LiteraryCriticism", <<"criticism", "analysis", "literary">>),
            TagInfo("#AfricanAuthors", <<"author", "african", "writer">>),
            TagInfo("#BookReview", <<"review", "book", "read">>),
            TagInfo("#PostcolonialLiterature", <<"postcolonial", "decolonial", "colonial">>)>>,
        micro |-> <<
            TagInfo("#NigerianLiterature", <<"nigerian", "nigeria">>),
            TagInfo("#ChinuaAchebe", <<"achebe", "things fall apart", "okonkwo">>),
            TagInfo("#AfricanFiction", <<"fiction", "african", "novel">>),
            TagInfo("#DecolonizingLiterature", <<"decolonize", "colonial", "western">>),
            TagInfo("#AfricanPublishing", <<"publishing", "publish", "book">>)>>,
        rotation_sets |-> [
            A |-> <<"#Books", "#AfricanLiterature", "#BookReview", "#NigerianLiterature">>,
            B |-> <<"#Literature", "#AfricanAuthors", "#LiteraryCriticism", "#AfricanFiction">>,
            C |-> <<"#Reading", "#AfricanLiterature", "#PostcolonialLiterature", "#DecolonizingLiterature">>,
            D |-> <<"#Writing", "#Bookstagram", "#AfricanAuthors", "#AfricanPublishing">>,
            E |-> <<"#Culture", "#AfricanLiterature", "#LiteraryCriticism", "#ChinuaAchebe">>]],
     tundexai |-> [
        broad |-> <<
            TagInfo("#AI", <<>>),
            TagInfo("#ArtificialIntelligence", <<>>),
            TagInfo("#Technology", <<>>),
            TagInfo("#Innovation", <<>>),
            TagInfo("#FutureOfWork", <<>>)>>,
        niche |-> <<
            TagInfo("#AIStrategy", <<"strategy", "plan", "roadmap", "adoption">>),
            TagInfo("#EnterpriseAI", <<"enterprise", "business", "corporate">>),
            TagInfo("#LLM", <<"llm", "language model", "gpt", "claude">>),
            TagInfo("#AITools", <<"tool", "tools", "software", "platform">>),
            TagInfo("#GenerativeAI", <<"generative", "generate", "image", "text">>),
            TagInfo("#PromptEngineering", <<"prompt", "prompting", "engineering">>),
            TagInfo("#AIAgents", <<"agent", "agents", "agentic", "autonomous">>)>>,
        micro |-> <<
            TagInfo("#AIImplementation", <<"implement", "deploy", "rollout">>),
            TagInfo("#AfricanAI", <<"africa", "african">>),
            TagInfo("#AIInAfrica", <<"africa", "african">>),
            TagInfo("#EnterpriseLLM", <<"enterprise", "llm", "business">>),
            TagInfo("#AIProductivity", <<"productivity", "workflow", "efficiency">>)>>,
        rotation_sets |-> [
            A |-> <<"#AI", "#AIStrategy", "#EnterpriseAI", "#AIImplementation">>,
            B |-> <<"#ArtificialIntelligence", "#LLM", "#AITools", "#EnterpriseLLM">>,
            C |-> <<"#AI", "#GenerativeAI", "#AIStrategy", "#AIProductivity">>,
            D |-> <<"#Technology", "#AIAgents", "#EnterpriseAI", "#AfricanAI">>,
            E |-> <<"#FutureOfWork", "#PromptEngineering", "#GenerativeAI", "#AIInAfrica">>]],
     wellwithtunde |-> [
        broad |-> <<
            TagInfo("#Health", <<>>),
            TagInfo("#Wellness", <<>>),
            TagInfo("#Mindfulness", <<>>),
            TagInfo("#Fitness", <<>>),
            TagInfo("#Nutrition", <<>>)>>,
        niche |-> <<
            TagInfo("#HolisticHealth", <<"holistic", "whole", "integrated">>),
            TagInfo("#SustainableWellness", <<"sustainable", "long-term", "lifestyle">>),
            TagInfo("#MentalHealth", <<"mental", "stress", "anxiety", "burnout">>),
            TagInfo("#BodyAwareness", <<"body", "awareness", "connection", "feeling">>),
            TagInfo("#HabitFormation", <<"habit", "routine", "daily", "practice">>),
            TagInfo("#ChronicWellness", <<"chronic", "disease", "prevention", "management">>)>>,
        micro |-> <<
            TagInfo("#BlackWellness", <<"black", "african american">>),
            TagInfo("#AfricanWellness", <<"african", "africa">>),
            TagInfo("#SustainableHealth", <<"sustainable", "lifestyle", "long term">>),
            TagInfo("#ChronicDiseasePrevention", <<"chronic", "disease", "prevention">>),
            TagInfo("#BodyConnection", <<"body", "connection", "somatic">>)>>,
        rotation_sets |-> [
            A |-> <<"#Wellness", "#HolisticHealth", "#HabitFormation", "#BlackWellness">>,
            B |-> <<"#Health", "#MentalHealth", "#SustainableWellness", "#AfricanWellness">>,
            C |-> <<"#Mindfulness", "#BodyAwareness", "#HolisticHealth", "#BodyConnection">>,
            D |-> <<"#Fitness", "#HabitFormation", "#SustainableWellness", "#SustainableHealth">>,
            E |-> <<"#Nutrition", "#ChronicWellness", "#HolisticHealth", "#ChronicDiseasePrevention">>]],
     tundestalksmen |-> [
        broad |-> <<
            TagInfo("#Men", <<>>),
            TagInfo("#Fatherhood", <<>>),
            TagInfo("#Relationships", <<>>),
            TagInfo("#MentalHealth", <<>>),
            TagInfo("#PersonalDevelopment", <<>>)>>,
        niche |-> <<
            TagInfo("#MensGrowth", <<"growth", "development", "change">>),
            TagInfo("#MensMentalHealth", <<"mental", "health", "therapy", "emotions">>),
            TagInfo("#MasculinityRedefined", <<"masculinity", "manhood", "redefine">>),
            TagInfo("#Accountability", <<"accountability", "accountable", "responsibility">>),
            TagInfo("#Brotherhood", <<"brotherhood", "community", "brothers", "men together">>),
            TagInfo("#DadLife", <<"dad", "father", "parenting", "kids">>)>>,
        micro |-> <<
            TagInfo("#AfricanMen", <<"african", "africa">>),
            TagInfo("#NigerianMen", <<"nigerian", "nigeria">>),
            TagInfo("#BlackMen", <<"black", "black men", "african american">>),
            TagInfo("#MenOfFaith", <<"faith", "christian", "church", "god">>),
            TagInfo("#MenInTherapy", <<"therapy", "therapist", "mental health", "healing">>)>>,
        rotation_sets |-> [
            A |-> <<"#Men", "#MensGrowth", "#Accountability", "#AfricanMen">>,
            B |-> <<"#PersonalDevelopment", "#MensMentalHealth", "#Brotherhood", "#BlackMen">>,
            C |-> <<"#Fatherhood", "#DadLife", "#MasculinityRedefined", "#NigerianMen">>,
            D |-> <<"#Relationships", "#Accountability", "#MensGrowth", "#MenInTherapy">>,
            E |-> <<"#MentalHealth", "#MensMentalHealth", "#Brotherhood", "#MenOfFaith">>]]]

EMERGENCY_ADJACENT_TAGS ==
    [ttbp |-> <<"#Entrepreneurship", "#StartUp", "#SideHustle", "#WorkLifeBalance", "#Productivity">>,
     cb |-> <<"#Poetry", "#Storytelling", "#Memoir", "#Creative Writing", "#BlackAuthors">>,
     tundexai |-> <<"#DataScience", "#MachineLearning", "#CloudComputing", "#DigitalTransformation", "#TechLeadership">>,
     wellwithtunde |-> <<"#Yoga", "#Meditation", "#SleepHealth", "#GutHealth", "#WomensHealth">>,
     tundestalksmen |-> <<"#Marriage", "#Divorce", "#SingleDad", "#Manhood", "#MensRights">>]

\* list(rotation_sets.keys()): the labels in the order the dictionary holds them
SetLabels == <<"A", "B", "C", "D", "E">>

\* the pool tags in ascending order of Python's string comparison
TagsAscending ==
    <<"#AI", "#AIAgents", "#AIImplementation", "#AIInAfrica",
      "#AIProductivity", "#AIStrategy", "#AITools", "#Accountability",
      "#AfricanAI", "#AfricanAuthors", "#AfricanFiction", "#AfricanLeaders",
      "#AfricanLiterature", "#AfricanMen", "#AfricanPublishing", "#AfricanWellness",
      "#ArtificialIntelligence", "#BlackLeaders", "#BlackMen", "#BlackWellness",
      "#BodyAwareness", "#BodyConnection", "#BookReview", "#Books",
      "#Bookstagram", "#Brotherhood", "#Business", "#Career",
      "#CareerGrowth", "#ChinuaAchebe", "#ChronicDiseasePrevention", "#ChronicWellness",
      "#CorporateCulture", "#Culture", "#DadLife", "#DecolonizingLiterature",
      "#DiasporaLeadership", "#EnterpriseAI", "#EnterpriseLLM", "#ExecutivePresence",
      "#Fatherhood", "#Fitness", "#FutureOfWork", "#GenerativeAI",
      "#HabitFormation", "#Health", "#HolisticHealth", "#Innovation",
      "#LLM", "#Leadership", "#LeadershipInAfrica", "#LiteraryCriticism",
      "#Literature", "#Management", "#ManagementInsights", "#MasculinityRedefined",
      "#Men", "#MenInTherapy", "#MenOfFaith", "#MensGrowth",
      "#MensMentalHealth", "#MentalHealth", "#MiddleManagement", "#Mindfulness",
      "#NigerianLiterature", "#NigerianMen", "#NigerianProfessionals", "#Nutrition",
      "#PersonalDevelopment", "#PostcolonialLiterature", "#ProfessionalDevelopment", "#PromptEngineering",
      "#Reading", "#Relationships", "#Strategy", "#SustainableHealth",
      "#SustainableWellness", "#Technology", "#Wellness", "#WorkplaceIntelligence",
      "#WorkplaceWellness", "#Writing">>

Topics == {"", "promotion"}

\* the affinities a and non-empty topics of Topics with a.lower() in
\* topic.lower() or topic.lower() in a.lower()
SubstringPairs ==
    {<<"promotion", "promotion">>}

NoneValue == "None"

Range(seq) == {seq[i] : i \in DOMAIN seq}

NoTagsUsed == [t \in {} |-> 0]

\* PLATFORM_LIMITS.get(platform, PLATFORM_LIMITS["linkedin"])
PlatformConfig(platform) ==
    IF platform \in DOMAIN PLATFORM_LIMITS
    THEN PLATFORM_LIMITS[platform]
    ELSE PLATFORM_LIMITS["linkedin"]

\* history.get(niche, {"post_count": 0, "last_set": None, "tag_last_used": {}})
_get_niche_history(history, niche) ==
    IF niche \in DOMAIN history
    THEN history[niche]
    ELSE [post_count |-> 0, last_set |-> NoneValue, tag_last_used |-> NoTagsUsed]

\* tag.strip() if tag.startswith("#") else "#" + tag.strip(); every tag of
\* the pools and of the emergency lists starts with "#" and has no blank at
\* either end
Clean(tag) ==
    IF tag \in Range(TagsAscending)
          \cup UNION {Range(EMERGENCY_ADJACENT_TAGS[n]) : n \in VALID_NICHES}
    THEN tag
    ELSE "#" \o tag

\* the niche history after mark_tags_used: post_count += 1 and each tag
\* stamped with the new count
Marked(nh, tags) ==
    LET post_count == nh.post_count + 1
        cleaned == {Clean(tags[i]) : i \in DOMAIN tags}
    IN  [nh EXCEPT !.post_count = post_count,
                   !.tag_last_used =
                       [t \in DOMAIN nh.tag_last_used \cup cleaned |->
                           IF t \in cleaned THEN post_count ELSE nh.tag_last_used[t]]]

\* the usage history mark_tags_used saves
mark_tags_used(history, niche, tags) ==
    [n \in DOMAIN history \cup {niche} |->
        IF n = niche THEN Marked(_get_niche_history(history, niche), tags)
        ELSE history[n]]

\* posts_ago, None if the tag was never used
PostsAgo(tag, niche_history) ==
    IF tag \in DOMAIN niche_history.tag_last_used
    THEN niche_history.post_count - niche_history.tag_last_used[tag]
    ELSE -1

\* Mutation of _is_on_cooldown: a tag still on cooldown COOLDOWN_POSTS posts after its use.
OnCooldownOnePostLonger(tag, niche_history) ==
    /\ tag \in DOMAIN niche_history.tag_last_used
    /\ PostsAgo(tag, niche_history) <= COOLDOWN_POSTS

_is_on_cooldown(tag, niche_history) ==
    /\ tag \in DOMAIN niche_history.tag_last_used
    /\ PostsAgo(tag, niche_history) < COOLDOWN_POSTS

\* a.lower() in topic_lower or topic_lower in a.lower()
Affine(a, topic) == topic = "" \/ <<a, topic>> \in SubstringPairs

_topic_score(tag_info, topic) ==
    Min(3, Cardinality({i \in DOMAIN tag_info.topics : Affine(tag_info.topics[i], topic)}))

IndexIn(seq, x) == CHOOSE i \in DOMAIN seq : seq[i] = x

_pick_rotation_set(niche_history) ==
    LET last_set == niche_history.last_set
    IN  IF last_set = NoneValue THEN SetLabels[1]
        ELSE IF last_set \in Range(SetLabels)
        THEN SetLabels[(IndexIn(SetLabels, last_set) % Len(SetLabels)) + 1]
        ELSE SetLabels[1]

AllPoolTags(niche) ==
    HASHTAG_POOLS[niche].broad \o HASHTAG_POOLS[niche].niche \o HASHTAG_POOLS[niche].micro

TagsOf(infos) == {infos[i].tag : i \in DOMAIN infos}

_get_tier(niche, tag) ==
    IF tag \in TagsOf(HASHTAG_POOLS[niche].broad) THEN "broad"
    ELSE IF tag \in TagsOf(HASHTAG_POOLS[niche].niche) THEN "niche"
    ELSE IF tag \in TagsOf(HASHTAG_POOLS[niche].micro) THEN "micro"
    ELSE "niche"

TierWeight(tier) == IF tier = "niche" THEN 3 ELSE IF tier = "micro" THEN 2 ELSE 1

\* (total_score, t) of the pool tags that may stand in for a tag on cooldown
Scored(niche, topic, niche_history, final_tags, base_tags) ==
    LET infos == AllPoolTags(niche)
    IN  {<<_topic_score(infos[i], topic) * 2 + TierWeight(_get_tier(niche, infos[i].tag)),
           infos[i].tag>> :
            i \in {j \in DOMAIN infos :
                      /\ infos[j].tag \notin Range(final_tags) \cup Range(base_tags)
                      /\ ~_is_on_cooldown(infos[j].tag, niche_history)}}

\* tuple comparison: the score, then the tag as a string
TupleGreater(p, q) ==
    \/ p[1] > q[1]
    \/ p[1] = q[1] /\ IndexIn(TagsAscending, p[2]) > IndexIn(TagsAscending, q[2])

RECURSIVE SortedReverse(_)
\* scored.sort(reverse=True)
SortedReverse(scored) ==
    IF scored = {} THEN <<>>
    ELSE LET top == CHOOSE p \in scored : \A q \in scored \ {p} : TupleGreater(p, q)
         IN  <<top[2]>> \o SortedReverse(scored \ {top})

First(seq, n) == SubSeq(seq, 1, Max(0, Min(n, Len(seq))))

\* the loop that fills final_tags up to target_count from the sorted tags
Substituted(niche, topic, niche_history, final_tags, base_tags, target_count) ==
    IF Len(final_tags) = Len(base_tags) THEN final_tags
    ELSE final_tags \o First(SortedReverse(Scored(niche, topic, niche_history, final_tags, base_tags)),
                             target_count - Len(final_tags))

\* the loop that fills final_tags up to min_tags with any tag off cooldown
Filled(niche, niche_history, final_tags, min_tags) ==
    IF Len(final_tags) >= min_tags THEN final_tags
    ELSE LET infos == AllPoolTags(niche)
             free == SelectSeq(infos, LAMBDA info :
                         /\ info.tag \notin Range(final_tags)
                         /\ ~_is_on_cooldown(info.tag, niche_history))
         IN  final_tags \o First([i \in DOMAIN free |-> free[i].tag], min_tags - Len(final_tags))

_select_tags_for_topic(niche, platform, topic, niche_history) ==
    LET sweet_spot == PlatformConfig(platform).sweet_spot
        target_count == Min(sweet_spot[2], 4)
        set_label == _pick_rotation_set(niche_history)
        base_tags == HASHTAG_POOLS[niche].rotation_sets[set_label]
        kept == SelectSeq(base_tags, LAMBDA t : ~_is_on_cooldown(t, niche_history))
        substitutions_needed == SelectSeq(base_tags, LAMBDA t : _is_on_cooldown(t, niche_history))
        trimmed == First(Substituted(niche, topic, niche_history, kept, base_tags, target_count),
                         target_count)
    IN  [set_label |-> set_label,
         tags |-> Filled(niche, niche_history, trimmed, sweet_spot[1]),
         cooldown_notes |-> [i \in DOMAIN substitutions_needed |->
                                [tag |-> substitutions_needed[i],
                                 posts_ago |-> PostsAgo(substitutions_needed[i], niche_history)]]]

_tier_breakdown(niche, tags) ==
    [tier \in {"broad", "niche", "micro"} |->
        Cardinality({i \in DOMAIN tags : _get_tier(niche, tags[i]) = tier})]

\* the first two rotation sets other than the selected one
_get_alternative_sets(niche, selected_set) ==
    LET others == SelectSeq(SetLabels, LAMBDA label : label # selected_set)
    IN  [i \in 1..Min(2, Len(others)) |->
            [label |-> others[i], tags |-> HASHTAG_POOLS[niche].rotation_sets[others[i]]]]

\* tags with the emergency tags appended and cut to the top of the sweet spot
WithEmergency(niche, platform, tags) ==
    LET adj_tags == First(EMERGENCY_ADJACENT_TAGS[niche], 2)
        first == IF adj_tags[1] \in Range(tags) THEN tags ELSE Append(tags, adj_tags[1])
        both == IF adj_tags[2] \in Range(first) THEN first ELSE Append(first, adj_tags[2])
    IN  First(both, PlatformConfig(platform).sweet_spot[2])

HashtagSet(niche, platform, topic, set_label, tags, cooldown_notes) ==
    [niche |-> niche, platform |-> platform, topic |-> topic, set_label |-> set_label,
     tags |-> tags, tier_breakdown |-> _tier_breakdown(niche, tags),
     alternative_sets |-> _get_alternative_sets(niche, set_label),
     cooldown_notes |-> cooldown_notes]

get_hashtag_set(history, niche, platform, topic, emergency) ==
    LET selected == _select_tags_for_topic(niche, platform, topic, _get_niche_history(history, niche))
    IN  HashtagSet(niche, platform, topic, selected.set_label,
                   IF emergency THEN WithEmergency(niche, platform, selected.tags)
                   ELSE selected.tags,
                   selected.cooldown_notes)

DayTopic(i) == <<"Day 1", "Day 2", "Day 3", "Day 4", "Day 5", "Day 6", "Day 7">>[i]

generate_week_rotation(niche, platform) ==
    [d \in 1..7 |->
        LET set_label == SetLabels[((d - 1) % Len(SetLabels)) + 1]
        IN  HashtagSet(niche, platform, DayTopic(d), set_label,
                       HASHTAG_POOLS[niche].rotation_sets[set_label], <<>>)]

MaxPosts == 2

RotationNiches == VALID_NICHES \cup {"fitness"}

RotationPlatforms == {"linkedin", "instagram", "twitter", "x"}

NoHashtagSet == [set_label |-> "none"]

notRotVars == <<scoreVars, tie, histVars, filterVars, cliVars, pat, norm, race>>

\* no usage file yet: _load_usage_history returns {}
InitRotation ==
    /\ \E niche \in RotationNiches :
          rot = [pc |-> "start", niche |-> niche, history |-> [n \in {} |-> 0],
                 result |-> NoHashtagSet, previous |-> NoHashtagSet,
                 week |-> <<>>, raised |-> "none"]
    /\ HistIdle
    /\ ScoreIdle
    /\ FilterIdle
    /\ CliIdle
    /\ pat = Unused
    /\ norm = Unused
    /\ race = Unused

\* the hashtag set for the next post of the niche
GetHashtagSet(platform, topic, emergency) ==
    /\ rot.pc \in {"start", "marked"}
    /\ IF rot.niche \notin VALID_NICHES
       THEN rot' = [rot EXCEPT !.pc = "raised", !.raised = "ValueError"]
       ELSE rot' = [rot EXCEPT !.pc = "picked",
                               !.previous = rot.result,
                               !.result = get_hashtag_set(rot.history, rot.niche, platform,
                                                          topic, emergency)]
    /\ UNCHANGED notRotVars

\* the post went out with the returned tags
MarkTagsUsed ==
    /\ rot.pc = "picked"
    /\ _get_niche_history(rot.history, rot.niche).post_count < MaxPosts
    /\ rot' = [rot EXCEPT !.pc = "marked",
                          !.history = mark_tags_used(rot.history, rot.niche, rot.result.tags)]
    /\ UNCHANGED notRotVars

\* --week; HASHTAG_POOLS[niche] raises KeyError for a niche without a pool
GenerateWeekRotation(platform) ==
    /\ rot.pc \in {"start", "marked"}
    /\ IF rot.niche \notin DOMAIN HASHTAG_POOLS
       THEN rot' = [rot EXCEPT !.pc = "raised", !.raised = "KeyError"]
       ELSE rot' = [rot EXCEPT !.week = generate_week_rotation(rot.niche, platform)]
    /\ UNCHANGED notRotVars

NextRotation ==
    \/ \E platform \in RotationPlatforms, topic \in Topics, emergency \in BOOLEAN :
          GetHashtagSet(platform, topic, emergency)
    \/ MarkTagsUsed
    \/ \E platform \in RotationPlatforms : GenerateWeekRotation(platform)

SpecRotation == InitRotation /\ [][NextRotation]_vars

\* C17: generate_week_rotation returns 7 hashtag sets no two of which have
\* the same set label and tag list, for every niche and platform.
C17_WeekPairwiseDistinct ==
    rot.week # <<>> =>
        /\ Len(rot.week) = 7
        /\ \A i, j \in 1..Len(rot.week) :
              i # j => <<rot.week[i].set_label, rot.week[i].tags>>
                           # <<rot.week[j].set_label, rot.week[j].tags>>

NextLabel(label) == SetLabels[(IndexIn(SetLabels, label) % Len(SetLabels)) + 1]

\* C20: across successive posts of one niche (get_hashtag_set, then
\* mark_tags_used with the returned tags) the rotation set picked for a post
\* is the one after the set picked for the previous post, cyclically A, B, C,
\* D, E, A, and so never the same set.
C20_LabelAdvances ==
    (rot.pc = "picked" /\ rot.previous # NoHashtagSet) =>
        rot.result.set_label = NextLabel(rot.previous.set_label)

(***************************************************************************)
(* --mark-used: successive mark_tags_used calls, for any niche and any     *)
(* list of tags, and the cooldown _is_on_cooldown reports after them.      *)
(***************************************************************************)
MaxMarks == 5

CooldownNiches == {"ttbp", "cb"}

CooldownTagLists == {<<>>, <<"#Leadership">>, <<"Career">>, <<"#Leadership", "Career">>}

InitCooldown ==
    /\ rot = [pc |-> "marking", history |-> [n \in {} |-> 0], log |-> <<>>]
    /\ HistIdle
    /\ ScoreIdle
    /\ FilterIdle
    /\ CliIdle
    /\ pat = Unused
    /\ norm = Unused
    /\ race = Unused

\* mark_tags_used(niche, tags); log keeps the calls made
MarkUsed(niche, tags) ==
    /\ rot.pc = "marking"
    /\ Len(rot.log) < MaxMarks
    /\ rot' = [rot EXCEPT !.history = mark_tags_used(rot.history, niche, tags),
                          !.log = Append(@, [niche |-> niche,
                                             tags |-> {Clean(tags[i]) : i \in DOMAIN tags}])]
    /\ UNCHANGED notRotVars

NextCooldown == \E niche \in CooldownNiches, tags \in CooldownTagLists : MarkUsed(niche, tags)

SpecCooldown == InitCooldown /\ [][NextCooldown]_vars

\* the calls for the niche that marked the tag
MarkedAt(niche, tag) ==
    {i \in DOMAIN rot.log : rot.log[i].niche = niche /\ tag \in rot.log[i].tags}

\* the calls for the niche made after the last one that marked the tag
FurtherCalls(niche, tag) ==
    Cardinality({j \in DOMAIN rot.log :
                    /\ rot.log[j].niche = niche
                    /\ \A i \in MarkedAt(niche, tag) : j > i})

CooldownOf(niche, tag) == _is_on_cooldown(tag, _get_niche_history(rot.history, niche))

\* C21: a tag marked used is on cooldown after 0, 1 or 2 further
\* mark_tags_used calls for the niche and reusable from the 3rd on; a tag
\* never marked for the niche is never on cooldown.
C21_CooldownThreePosts ==
    rot.pc = "marking" =>
        \A niche \in CooldownNiches, tag \in {"#Leadership", "#Career"} :
            CooldownOf(niche, tag) <=>
                (MarkedAt(niche, tag) # {} /\ FurtherCalls(niche, tag) < 3)

\* a tag marked for one niche only: reusable there after exactly 3 further
\* calls, still on cooldown where 2 further calls were made
C21_Witness ==
    /\ rot.pc = "marking"
    /\ MarkedAt("ttbp", "#Career") # {}
    /\ FurtherCalls("ttbp", "#Career") = 3
    /\ ~CooldownOf("ttbp", "#Career")
    /\ MarkedAt("ttbp", "#Leadership") # {}
    /\ FurtherCalls("ttbp", "#Leadership") = 2
    /\ CooldownOf("ttbp", "#Leadership")
    /\ MarkedAt("cb", "#Career") = {}
    /\ ~CooldownOf("cb", "#Career")

(***************************************************************************)
(* _analyze_niche on the posts of a run, for each niche and platform that  *)
(* some post has, as the loop of summarize_week calls it.                  *)
(***************************************************************************)
MaxGroupPosts == 4

AnalyzeRow(id, niche, platform, published_at, format_type, impressions, likes, saves) ==
    [post_id |-> id, niche |-> niche, platform |-> platform,
     published_at |-> published_at, format_type |-> format_type,
     impressions |-> impressions, reach |-> impressions, likes |-> likes,
     comments |-> 0, shares |-> 0, saves |-> saves, clicks |-> 0]

\* five "tundexai" posts on Twitter (target 2.8, save target 0.5), one of
\* them at the target, two of equal score, one without a date; two "ttbp"
\* posts on LinkedIn (target 3.0, save target 0.3), one with a save rate of
\* 0.45, one at 0.85 of the target
AnalyzeRows ==
    {AnalyzeRow("x1", "tundexai", "twitter", IsoDate(38), "narrative", 1000, 28, 0),
     AnalyzeRow("x2", "tundexai", "twitter", BadDate, "narrative", 1000, 10, 0),
     AnalyzeRow("x3", "tundexai", "twitter", IsoT(39, 1), "framework", 1000, 10, 20),
     AnalyzeRow("x4", "tundexai", "twitter", IsoDate(36), "data_shock", 1000, 50, 0),
     AnalyzeRow("x5", "tundexai", "twitter", IsoDate(37), "narrative", 1000, 10, 0),
     AnalyzeRow("y1", "ttbp", "linkedin", IsoDate(38), "narrative", 10000, 400, 45),
     AnalyzeRow("y2", "ttbp", "linkedin", IsoDate(37), "framework", 10000, 255, 0)}

\* _analyze_niche returned None
NoPerf == [niche |-> "None"]

InitAnalyze ==
    /\ tie \in TieModes
    /\ \E rows \in ListsOf(AnalyzeRows, MaxGroupPosts) :
          pat = [pc |-> "loaded", posts |-> [i \in 1..Len(rows) |-> ParseRow(rows[i])],
                 filtered |-> <<>>, perf |-> NoPerf]
    /\ post = NoPost
    /\ twin = NoPost
    /\ pc = "idle"
    /\ pcTwin = "idle"
    /\ raised = "none"
    /\ HistIdle
    /\ FilterIdle
    /\ CliIdle
    /\ norm = Unused
    /\ rot = Unused
    /\ race = Unused

\* perf = _analyze_niche(posts, niche, plat) for a niche and a platform of
\* the posts; None when no post has both
AnalyzeNiche(niche, platform) ==
    /\ pat.pc \in {"loaded", "analyzed"}
    /\ \E i \in 1..Len(pat.posts) : pat.posts[i].niche = niche
    /\ \E i \in 1..Len(pat.posts) : pat.posts[i].platform = platform
    /\ \E filtered \in {SelectSeq(pat.posts,
                                  LAMBDA p : p.niche = niche /\ p.platform = platform)} :
          pat' = [pat EXCEPT !.pc = "analyzed",
                             !.filtered = filtered,
                             !.perf = IF filtered = <<>> THEN NoPerf
                                      ELSE _analyze_niche(pat.posts, niche, platform)]
    /\ UNCHANGED notPatVars

NextAnalyze ==
    \E niche \in {"tundexai", "ttbp"}, platform \in {"twitter", "linkedin"} :
        AnalyzeNiche(niche, platform)

SpecAnalyze == InitAnalyze /\ [][NextAnalyze]_vars

Analyzed == pat.pc = "analyzed" /\ pat.perf # NoPerf

\* C22: top_performers is the first 3 posts of the group in descending
\* composite_score and bottom_performers the last 3 of that order reversed:
\* both have min(3, n) posts, top_performers[0] has the maximum score of the
\* group and bottom_performers[0] the minimum, no post left out of
\* top_performers scores higher than one in it and none left out of
\* bottom_performers lower, and a group of at most 3 posts is listed whole in
\* both, bottom_performers being top_performers reversed.
C22_TopAndBottomPerformers ==
    Analyzed =>
        LET top == pat.perf.top_performers
            bottom == pat.perf.bottom_performers
            n == Len(pat.filtered)
            m == Min(3, n)
        IN  /\ Len(top) = m /\ Len(bottom) = m
            /\ Elems(top) \subseteq Elems(pat.filtered)
            /\ Elems(bottom) \subseteq Elems(pat.filtered)
            /\ \A i, j \in 1..m : i < j =>
                  /\ top[i].composite_score >= top[j].composite_score
                  /\ bottom[i].composite_score <= bottom[j].composite_score
            /\ \A p \in Elems(pat.filtered) :
                  /\ p.composite_score <= top[1].composite_score
                  /\ p.composite_score >= bottom[1].composite_score
                  /\ p \notin Elems(top) => p.composite_score <= top[m].composite_score
                  /\ p \notin Elems(bottom) => p.composite_score >= bottom[m].composite_score
            /\ n <= 3 => /\ Elems(top) = Elems(pat.filtered)
                         /\ bottom = [i \in 1..m |-> top[m + 1 - i]]

\* a group of four posts: the best is in top_performers only, the worst in
\* bottom_performers only
C22_Witness ==
    /\ Analyzed
    /\ Len(pat.filtered) = 4
    /\ pat.perf.top_performers[1].composite_score
          > pat.perf.bottom_performers[1].composite_score
    /\ pat.perf.top_performers[1] \notin Elems(pat.perf.bottom_performers)
    /\ pat.perf.bottom_performers[1] \notin Elems(pat.perf.top_performers)

\* C23: benchmark_status is ABOVE when the group's average engagement rate
\* is >= the platform-scaled target, MEETING when it is below the target but
\* >= 0.85 times the target, and BELOW otherwise.
C23_StatusByTarget ==
    Analyzed =>
        pat.perf.benchmark_status =
            IF pat.perf.avg_engagement_rate >= pat.perf.benchmark_target THEN "ABOVE"
            ELSE IF 100 * pat.perf.avg_engagement_rate >= 85 * pat.perf.benchmark_target
            THEN "MEETING"
            ELSE "BELOW"

KindsOf(recs) == [i \in 1..Len(recs) |-> recs[i].kind]

\* the rules of _build_niche_recommendations whose condition holds, in the
\* priority order
RulesMet ==
    LET perf == pat.perf
        saves == [i \in 1..Len(pat.filtered) |-> pat.filtered[i].save_rate]
    IN  (IF perf.benchmark_status = "BELOW" THEN <<"gap">> ELSE <<>>)
        \o (IF /\ perf.best_format # "unknown"
               /\ perf.worst_format # "unknown"
               /\ 10 * perf.format_breakdown[perf.best_format]
                     > 15 * perf.format_breakdown[perf.worst_format]
            THEN <<"shift">> ELSE <<>>)
        \o (IF perf.best_day # "N/A" THEN <<"timing">> ELSE <<>>)
        \o (IF perf.top_performers # <<>> THEN <<"repurpose">> ELSE <<>>)
        \o (IF 10 * Sum(saves) > 15 * SaveTarget(perf.niche) * Len(saves)
            THEN <<"save">> ELSE <<>>)

\* C24: _build_niche_recommendations returns at most 4 strings, in the
\* order gap-to-target, shift-mix, timing, repurpose, reference-worthy, each
\* present only if its condition holds: the first four of the rules met.
C24_FirstFourRulesMet ==
    Analyzed => KindsOf(pat.perf.recommendations) = Take(RulesMet, 4)

\* the posts a cluster rule selects from the input
ClusterOf(rule) ==
    CASE rule = "high save" -> HighSave(pat.posts)
      [] rule = "comments" -> HighComment(pat.posts)
      [] rule = "low performers" -> LowPerformers(pat.posts)

\* the most frequent format of a cluster, the one met first in the post list
\* among those that tie
FirstMajority(cluster) ==
    LET Count(f) == Cardinality({i \in 1..Len(cluster) : cluster[i].format_type = f})
        first == CHOOSE i \in 1..Len(cluster) :
                    /\ \A j \in 1..Len(cluster) :
                          Count(cluster[j].format_type) <= Count(cluster[i].format_type)
                    /\ \A j \in 1..(i - 1) :
                          Count(cluster[j].format_type) < Count(cluster[i].format_type)
    IN  cluster[first].format_type

\* C25: when formats tie for the majority of a cluster (high-save,
\* high-comment, low performers) the finding names the tied format met first
\* in the post list, so a post list always gives the same findings.
C25_TieNamesFirstEncountered ==
    pat.pc = "done" =>
        \A i \in 1..Len(pat.out) :
            RuleRank(pat.out[i]) > 1 =>
                pat.out[i].fmt = FirstMajority(ClusterOf(pat.out[i].rule))

(***************************************************************************)
(* Post content.  A text is the sequence of its characters, so that the    *)
(* substring tests of _detect_niche and the regular expressions of         *)
(* _detect_format are computed on what the content holds.                  *)
(***************************************************************************)
UpperCase ==
    <<"A", "B", "C", "D", "E", "F", "G", "H", "I", "J", "K", "L", "M",
      "N", "O", "P", "Q", "R", "S", "T", "U", "V", "W", "X", "Y", "Z">>

LowerCase ==
    <<"a", "b", "c", "d", "e", "f", "g", "h", "i", "j", "k", "l", "m",
      "n", "o", "p", "q", "r", "s", "t", "u", "v", "w", "x", "y", "z">>

LowerChar(c) == IF c \in Range(UpperCase) THEN LowerCase[IndexIn(UpperCase, c)] ELSE c

\* content.lower()
LowerText(content) == [i \in 1..Len(content) |-> LowerChar(content[i])]

\* w in text
Occurs(w, text) ==
    \E i \in 1..(Len(text) - Len(w) + 1) : SubSeq(text, i, i + Len(w) - 1) = w

\* NICHE_BENCHMARKS[niche]["pillars"]
PILLARS ==
    [ttbp |-> <<<<"l", "e", "a", "d", "e", "r", "s", "h", "i", "p">>,
            <<"c", "a", "r", "e", "e", "r">>,
            <<"m", "a", "n", "a", "g", "e", "m", "e", "n", "t">>,
            <<"p", "r", "o", "m", "o", "t", "i", "o", "n">>,
            <<"a", "f", "r", "i", "c", "a">>>>,
     cb |-> <<<<"b", "o", "o", "k", "s">>,
            <<"l", "i", "t", "e", "r", "a", "t", "u", "r", "e">>,
            <<"a", "f", "r", "i", "c", "a">>,
            <<"c", "u", "l", "t", "u", "r", "e">>,
            <<"p", "u", "b", "l", "i", "s", "h", "i", "n", "g">>,
            <<"c", "h", "i", "n", "u", "a">>,
            <<"a", "c", "h", "e", "b", "e">>>>,
     tundexai |-> <<<<"a", "i">>,
            <<"c", "l", "a", "u", "d", "e">>,
            <<"c", "h", "a", "t", "g", "p", "t">>,
            <<"l", "l", "m">>,
            <<"a", "u", "t", "o", "m", "a", "t", "i", "o", "n">>,
            <<"b", "e", "n", "c", "h", "m", "a", "r", "k">>,
            <<"e", "n", "t", "e", "r", "p", "r", "i", "s", "e">>>>,
     wellwithtunde |-> <<<<"w", "e", "l", "l", "n", "e", "s", "s">>,
            <<"h", "e", "a", "l", "t", "h">>,
            <<"m", "i", "n", "d", "f", "u", "l", "n", "e", "s", "s">>,
            <<"h", "a", "b", "i", "t">>,
            <<"b", "o", "d", "y">>,
            <<"n", "u", "t", "r", "i", "t", "i", "o", "n">>,
            <<"c", "h", "r", "o", "n", "i", "c">>>>,
     tundestalksmen |-> <<<<"m", "e", "n">>,
            <<"f", "a", "t", "h", "e", "r">>,
            <<"r", "e", "l", "a", "t", "i", "o", "n", "s", "h", "i", "p">>,
            <<"a", "c", "c", "o", "u", "n", "t", "a", "b", "i", "l", "i", "t", "y">>,
            <<"b", "r", "o", "t", "h", "e", "r", "h", "o", "o", "d">>,
            <<"f", "a", "i", "t", "h">>>>]

MaxWords == 3

NicheWords ==
    <<<<"M", "a", "n", "a", "g", "e", "m", "e", "n", "t">>,
      <<"A", "f", "r", "i", "c", "a">>,
      <<"A", "I">>,
      <<"b", "o", "o", "k", "s">>,
      <<"L", "e", "a", "d", "e", "r", "s", "h", "i", "p">>,
      <<"h", "e", "a", "l", "t", "h">>,
      <<"m", "e", "n">>,
      <<"c", "h", "a", "i", "r">>,
      <<"f", "a", "i", "t", "h">>,
      <<"H", "e", "l", "l", "o">>>>
\* sum(1 for pillar in config["pillars"] if pillar in text)
PillarScore(niche, text) ==
    Cardinality({i \in DOMAIN PILLARS[niche] : Occurs(PILLARS[niche][i], text)})

\* Mutation of _detect_niche: the last of the niches with the highest score.
DetectNicheLastMax(content) ==
    LET text == LowerText(content)
        scores == SelectSeq(NICHE_ORDER, LAMBDA n : PillarScore(n, text) > 0)
    IN  IF scores = <<>> THEN "ttbp"
        ELSE scores[CHOOSE i \in 1..Len(scores) :
                       /\ \A j \in 1..Len(scores) :
                             PillarScore(scores[j], text) <= PillarScore(scores[i], text)
                       /\ \A j \in (i + 1)..Len(scores) :
                             PillarScore(scores[j], text) < PillarScore(scores[i], text)]

\* scores holds the niches of non-zero score in the order of NICHE_BENCHMARKS;
\* max(scores, key=...) is the first of those with the highest score
_detect_niche(content) ==
    LET text == LowerText(content)
        scores == SelectSeq(NICHE_ORDER, LAMBDA n : PillarScore(n, text) > 0)
    IN  IF scores = <<>> THEN "ttbp"
        ELSE FirstMax(scores, [n \in Elems(scores) |-> PillarScore(n, text)])

\* the words of a content, a blank between two
RECURSIVE Joined(_)
Joined(words) ==
    IF words = <<>> THEN <<>>
    ELSE IF Len(words) = 1 THEN words[1]
    ELSE words[1] \o <<" ">> \o Joined(Tail(words))

NicheContents == {Joined(words) : words \in SeqUpTo(Elems(NicheWords), MaxWords)}

InitNiche ==
    /\ \E content \in NicheContents :
          norm = [pc |-> "content", content |-> content, niche |-> "none"]
    /\ tie = "even"
    /\ post = NoPost
    /\ twin = NoPost
    /\ pc = "idle"
    /\ pcTwin = "idle"
    /\ raised = "none"
    /\ HistIdle
    /\ FilterIdle
    /\ CliIdle
    /\ pat = Unused
    /\ rot = Unused
    /\ race = Unused

\* niche = _detect_niche(content)
DetectNiche ==
    /\ norm.pc = "content"
    /\ norm' = [norm EXCEPT !.pc = "detected", !.niche = _detect_niche(norm.content)]
    /\ UNCHANGED notNormVars

NextNiche == DetectNiche

SpecNiche == InitNiche /\ [][NextNiche]_vars

\* the number of pillar keywords of a niche that occur in the lower-cased content
KeywordCount(niche) == PillarScore(niche, LowerText(norm.content))

\* C26: _detect_niche returns the niche with the highest non-zero count of
\* pillar keywords occurring in the lower-cased content, the first of them in
\* the order ttbp, cb, tundexai, wellwithtunde, tundestalksmen when several
\* share the highest count, and "ttbp" when no keyword occurs.
C26_HighestCountFirstInOrder ==
    norm.pc = "detected" =>
        IF \A n \in Elems(NICHE_ORDER) : KeywordCount(n) = 0
        THEN norm.niche = "ttbp"
        ELSE \E i \in 1..Len(NICHE_ORDER) :
                /\ norm.niche = NICHE_ORDER[i]
                /\ KeywordCount(NICHE_ORDER[i]) > 0
                /\ \A j \in 1..Len(NICHE_ORDER) :
                      KeywordCount(NICHE_ORDER[j]) <= KeywordCount(NICHE_ORDER[i])
                /\ \A j \in 1..(i - 1) :
                      KeywordCount(NICHE_ORDER[j]) < KeywordCount(NICHE_ORDER[i])

\* "cb" and "tundexai" share the highest count: "cb", the earlier, is returned
C26_Witness ==
    /\ norm.pc = "detected"
    /\ norm.niche = "cb"
    /\ KeywordCount("cb") = KeywordCount("tundexai")
    /\ KeywordCount("ttbp") < KeywordCount("cb")

\* the tags of the returned set that are on cooldown in the usage history the
\* call read
ReturnedOnCooldown ==
    {tag \in Range(rot.result.tags) :
        _is_on_cooldown(tag, _get_niche_history(rot.history, rot.niche))}

\* C27: no tag returned by get_hashtag_set is on cooldown at the time of the
\* call, for every niche and platform, with or without the emergency flag,
\* after any sequence of earlier mark_tags_used calls.
C27_NoReturnedTagOnCooldown ==
    rot.pc = "picked" => ReturnedOnCooldown = {}

(***************************************************************************)
(* The history file across a run of summarize_week                         *)
(***************************************************************************)
\* a step of main() through summarize_week
RunsSummarize == cli.pc = "start" /\ cli'.pc # "start" /\ brief' # NoBrief

\* C28: when summarize_week fails (FileNotFoundError, unsupported file
\* format, or ValueError because no post remains after the filters) the
\* history file is left exactly as it was; _save_to_history runs only once
\* the list of posts has been found non-empty.
C28_FailureLeavesHistoryFile ==
    [][(RunsSummarize /\ (brief'.raised # "none" \/ cli'.left <= 0))
          => (history_file' = history_file /\ ~last_save'.called)]_vars

\* no post of the file passes the filters and the history file that existed
\* is as it was
C28_Witness ==
    /\ cli.pc = "exited"
    /\ cli.source = "file"
    /\ brief.raised = "ValueError"
    /\ cli.left = 0
    /\ history_file # NoFile
    /\ ~last_save.called

\* C29: summarize_week without a data path, its posts loaded from the
\* history file, leaves the list of history entries unchanged: no entry is
\* added, removed or duplicated, for any period and any niche or platform
\* filter.
C29_HistoryRunKeepsEntries ==
    [][(RunsSummarize /\ cli'.source = "history")
          => LoadedHistory(history_file') = LoadedHistory(history_file)]_vars

\* a run on the history file that reached _save_to_history
C29_Witness ==
    /\ cli.source = "history"
    /\ brief.raised = "none"
    /\ last_save.called
    /\ last_save.posts # <<>>
    /\ LoadedHistory(history_file) = last_save.before

(***************************************************************************)
(* _detect_format: re.search of each pattern of FORMAT_PATTERNS, in the    *)
(* order of the dictionary, with re.IGNORECASE | re.MULTILINE.  The        *)
(* characters "arrow" and "bullet" stand for U+2192 and U+2022.            *)
(***************************************************************************)
\* the character at index i, "" outside the text
At(t, i) == IF i \in 1..Len(t) THEN t[i] ELSE ""

\* [A-Z] under re.IGNORECASE
IsLetter(c) == c \in Range(UpperCase) \cup Range(LowerCase)

\* \d
IsDigit(c) == c \in {"0", "1", "2", "3", "4", "5", "6", "7", "8", "9"}

\* \w
IsWordChar(c) == IsLetter(c) \/ IsDigit(c) \/ c = "_"

\* \s
IsSpace(c) == c \in {" ", "\n", "\t"}

\* \b before index i
Boundary(t, i) == IsWordChar(At(t, i - 1)) # IsWordChar(At(t, i))

\* ^ under re.MULTILINE, before index i
LineStart(t, i) == i = 1 \/ At(t, i - 1) = "\n"

\* $ under re.MULTILINE, before index i
LineEnd(t, i) == i = Len(t) + 1 \/ At(t, i) = "\n"

\* the literal w at index i, under re.IGNORECASE
Lit(t, i, w) == \A j \in 1..Len(w) : LowerChar(At(t, i + j - 1)) = LowerChar(w[j])

\* \bw\b at index i
WordLit(t, i, w) == Boundary(t, i) /\ Lit(t, i, w) /\ Boundary(t, i + Len(w))

\* .{0,n} from index a up to index b: no newline
Dots(t, a, b, n) ==
    /\ b - a \in 0..n
    /\ b <= Len(t) + 1
    /\ \A j \in a..(b - 1) : t[j] # "\n"

\* \s* from index a up to index b
Spaces(t, a, b) == \A j \in a..(b - 1) : IsSpace(At(t, j))

\* \d+ from index a up to index b
Digits(t, a, b) == a < b /\ \A j \in a..(b - 1) : IsDigit(At(t, j))

\* the indexes a search may stand at
Starts(t) == 1..(Len(t) + 1)

\* re.search(r"\bw\b", t)
HasWord(t, w) == \E i \in Starts(t) : WordLit(t, i, w)

\* ^\s*w at the start of some line
LineOpensWith(t, w) ==
    \E i \in Starts(t) :
        /\ LineStart(t, i)
        /\ \E k \in i..(Len(t) + 1) : Spaces(t, i, k) /\ Lit(t, k, w)

\* r"^\d+\.", r"→ \d+", r"#\d+"
numbered_list(t) ==
    \/ \E i \in Starts(t) :
          /\ LineStart(t, i)
          /\ \E k \in Starts(t) : Digits(t, i, k) /\ At(t, k) = "."
    \/ \E i \in Starts(t) : Lit(t, i, <<"arrow", " ">>) /\ IsDigit(At(t, i + 2))
    \/ \E i \in Starts(t) : At(t, i) = "#" /\ IsDigit(At(t, i + 1))

\* r"^[-•→]", r"^•"
bullet_list(t) ==
    \/ \E i \in Starts(t) : LineStart(t, i) /\ At(t, i) \in {"-", "bullet", "arrow"}
    \/ \E i \in Starts(t) : LineStart(t, i) /\ At(t, i) = "bullet"

\* \bI\b.{0,n}\bw\b
IThenWord(t, n, w) ==
    \E i \in Starts(t) :
        /\ WordLit(t, i, <<"I">>)
        /\ \E k \in Starts(t) : WordLit(t, k, w) /\ Dots(t, i + 1, k, n)

\* r"\bI\b.{0,40}\byears?\b", r"\bI\b.{0,30}\bremember\b",
\* r"\bmy\s+\w+\b.{0,20}\btold\b"
personal_story(t) ==
    \/ IThenWord(t, 40, <<"y", "e", "a", "r">>)
    \/ IThenWord(t, 40, <<"y", "e", "a", "r", "s">>)
    \/ IThenWord(t, 30, <<"r", "e", "m", "e", "m", "b", "e", "r">>)
    \/ \E i \in Starts(t) :
          /\ Boundary(t, i) /\ Lit(t, i, <<"m", "y">>)
          /\ \E a \in (i + 3)..(Len(t) + 1) :
                /\ Spaces(t, i + 2, a)
                /\ \E b \in (a + 1)..(Len(t) + 1) :
                      /\ \A j \in a..(b - 1) : IsWordChar(At(t, j))
                      /\ Boundary(t, b)
                      /\ \E k \in Starts(t) : WordLit(t, k, <<"t", "o", "l", "d">>) /\ Dots(t, b, k, 20)

\* r"[A-Z]{3,}", r"^\s*Stop\b", r"^\s*This is wrong", r"Nobody tells you"
bold_claim(t) ==
    \/ \E i \in Starts(t) :
          IsLetter(At(t, i)) /\ IsLetter(At(t, i + 1)) /\ IsLetter(At(t, i + 2))
    \/ \E i \in Starts(t) :
          /\ LineStart(t, i)
          /\ \E k \in i..(Len(t) + 1) :
                Spaces(t, i, k) /\ Lit(t, k, <<"S", "t", "o", "p">>) /\ Boundary(t, k + 4)
    \/ LineOpensWith(t, <<"T", "h", "i", "s", " ", "i", "s", " ", "w", "r", "o", "n", "g">>)
    \/ \E i \in Starts(t) : Lit(t, i, <<"N", "o", "b", "o", "d", "y", " ", "t", "e", "l", "l", "s", " ", "y", "o", "u">>)

\* r"\d+%", r"\$[\d,]+", r"\d+x\b", r"\d+K\b", r"\d+M\b"
data_shock(t) ==
    \/ \E i \in Starts(t) : IsDigit(At(t, i)) /\ At(t, i + 1) = "%"
    \/ \E i \in Starts(t) : At(t, i) = "$" /\ (IsDigit(At(t, i + 1)) \/ At(t, i + 1) = ",")
    \/ \E i \in Starts(t) : \E u \in {"x", "K", "M"} :
          IsDigit(At(t, i)) /\ Lit(t, i + 1, <<u>>) /\ Boundary(t, i + 2)

\* r"^\s*\w.{0,80}\?$"
question_only(t) ==
    \E i \in Starts(t) :
        /\ LineStart(t, i)
        /\ \E k \in i..(Len(t) + 1) :
              /\ IsWordChar(At(t, k))
              /\ Spaces(t, i, k)
              /\ \E q \in Starts(t) :
                    /\ At(t, q) = "?"
                    /\ LineEnd(t, q + 1)
                    /\ Dots(t, k + 1, q, 80)

\* \bw \d\b
WordAndDigit(t, w) ==
    \E i \in Starts(t) :
        /\ Boundary(t, i) /\ Lit(t, i, w \o <<" ">>)
        /\ IsDigit(At(t, i + Len(w) + 1))
        /\ Boundary(t, i + Len(w) + 2)

\* r"\bframework\b", r"\bstep \d\b", r"\bphase \d\b", r"\bstage \d\b"
framework(t) ==
    \/ HasWord(t, <<"f", "r", "a", "m", "e", "w", "o", "r", "k">>)
    \/ WordAndDigit(t, <<"s", "t", "e", "p">>)
    \/ WordAndDigit(t, <<"p", "h", "a", "s", "e">>)
    \/ WordAndDigit(t, <<"s", "t", "a", "g", "e">>)

\* r"\bwrong\b", r"\blie\b", r"\bmyth\b", r"\bunpopular\b", r"\bno one says\b"
contrarian(t) ==
    \/ HasWord(t, <<"w", "r", "o", "n", "g">>)
    \/ HasWord(t, <<"l", "i", "e">>)
    \/ HasWord(t, <<"m", "y", "t", "h">>)
    \/ HasWord(t, <<"u", "n", "p", "o", "p", "u", "l", "a", "r">>)
    \/ HasWord(t, <<"n", "o", " ", "o", "n", "e", " ", "s", "a", "y", "s">>)

\* FORMAT_PATTERNS, in the order of the dictionary: which formats have a
\* pattern that re.search finds in the content
FORMAT_PATTERNS(content) ==
    <<[fmt |-> "numbered_list", found |-> numbered_list(content)],
      [fmt |-> "bullet_list", found |-> bullet_list(content)],
      [fmt |-> "personal_story", found |-> personal_story(content)],
      [fmt |-> "bold_claim", found |-> bold_claim(content)],
      [fmt |-> "data_shock", found |-> data_shock(content)],
      [fmt |-> "question_only", found |-> question_only(content)],
      [fmt |-> "framework", found |-> framework(content)],
      [fmt |-> "contrarian", found |-> contrarian(content)]>>

\* the first format with a pattern found, "narrative" without one
_detect_format(content) ==
    LET patterns == FORMAT_PATTERNS(content)
        found == SelectSeq(patterns, LAMBDA p : p.found)
    IN  IF found = <<>> THEN "narrative" ELSE found[1].fmt

\* the format tags of the fixed set
FormatTags ==
    {"numbered_list", "bullet_list", "personal_story", "bold_claim", "data_shock",
     "question_only", "framework", "contrarian", "narrative"}

MaxTokens == 2

\* pieces of content: one that opens each rule, and every word of the
\* framework and contrarian rules
FormatTokens ==
    <<<<"1", ".">>,
      <<"-", " ">>,
      <<"I", " ">>,
      <<"y", "e", "a", "r", "s">>,
      <<"S", "t", "o", "p">>,
      <<"5", "0", "%">>,
      <<"?">>,
      <<"o", "k">>,
      <<" ">>,
      <<"\n">>,
      <<"f", "r", "a", "m", "e", "w", "o", "r", "k">>,
      <<"s", "t", "e", "p", " ", "1">>,
      <<"p", "h", "a", "s", "e", " ", "2">>,
      <<"s", "t", "a", "g", "e", " ", "3">>,
      <<"w", "r", "o", "n", "g">>,
      <<"l", "i", "e">>,
      <<"m", "y", "t", "h">>,
      <<"u", "n", "p", "o", "p", "u", "l", "a", "r">>,
      <<"n", "o", " ", "o", "n", "e", " ", "s", "a", "y", "s">>,
      <<"arrow", " ", "2">>>>

TokenBase == Len(FormatTokens) + 1

NumContents == TokenBase ^ MaxTokens

\* the k-th content: up to MaxTokens pieces, one after the other
RECURSIVE ContentFrom(_, _)
ContentFrom(k, n) ==
    IF n = 0 THEN <<>>
    ELSE (IF k % TokenBase = 0 THEN <<>> ELSE FormatTokens[k % TokenBase])
             \o ContentFrom(k \div TokenBase, n - 1)

ContentAt(k) == ContentFrom(k, MaxTokens)

InitFormat ==
    /\ norm = [pc |-> "items", k |-> 0, content |-> <<>>, format_type |-> "none",
               seen |-> {}]
    /\ tie = "even"
    /\ post = NoPost
    /\ twin = NoPost
    /\ pc = "idle"
    /\ pcTwin = "idle"
    /\ raised = "none"
    /\ HistIdle
    /\ FilterIdle
    /\ CliIdle
    /\ pat = Unused
    /\ rot = Unused
    /\ race = Unused

\* the loop of a normalizer over the items of an export:
\* format_type = _detect_format(content) for the next item
DetectFormat ==
    /\ norm.pc = "items"
    /\ norm.k < NumContents
    /\ \E content \in {ContentAt(norm.k)} : \E fmt \in {_detect_format(content)} :
          norm' = [norm EXCEPT !.k = norm.k + 1,
                               !.content = content,
                               !.format_type = fmt,
                               !.seen = norm.seen \cup {fmt}]
    /\ UNCHANGED notNormVars

NextFormat == DetectFormat

\* the loop goes on to the last item
SpecFormat == InitFormat /\ [][NextFormat]_vars /\ WF_vars(DetectFormat)

\* C30: every format tag of the fixed set is reachable: for each of
\* numbered_list, bullet_list, personal_story, bold_claim, data_shock,
\* question_only, framework, contrarian and narrative there is content that
\* _detect_format classifies with that tag, so that over the contents every
\* tag is eventually returned.
C30_EveryTagReturned == <>(norm.seen = FormatTags)

====
